---- MODULE Spec2Model ----
(***************************************************************************)
(* Decomposition-yield pipeline of TECO-BOTtest                            *)
(* (app/services/rendimiento_descomposicion_service.py and                 *)
(* app/clients/rendimiento_descomposicion_client.py, with teco_request of   *)
(* app/core/http_sync.py and the session store of app/core/context.py),    *)
(* its route and response schema, the login of                             *)
(* app/services/auth_service.py and app/routes/auth.py, CircuitBreaker of  *)
(* app/clients/http_client.py and TTLCache of app/utils/cache.py.          *)
(*                                                                         *)
(* Conventions of the model                                                *)
(*  - Quantities are whole numbers of the unit of measure; on them         *)
(*    round(x, 4) returns x.  Sums are exact.                              *)
(*  - A percentage is kept in hundredths of a percent, so round(p, 2) is   *)
(*    a rounding to an integer (80.0 is 8000).                             *)
(*  - An Optional value is a sequence: <<>> is None, <<v>> is v.           *)
(*  - A missing or empty string (None or "") is "": the code only tests    *)
(*    these for truthiness.  A missing product id (None) is 0.             *)
(*  - A date is its proleptic Gregorian day number counted from            *)
(*    1970-01-01; a createdAt of 0 is a missing timestamp.                 *)
(*  - A Python dict is a sequence of entries in insertion order.           *)
(*  - A name of a stock area or of a user is a sequence of characters.     *)
(*  - time.time() is a clock of whole ticks that never runs backwards.     *)
(*  - One step of a listing is one call of teco_request for one page; one  *)
(*    step of a pool task is one call of get_movement_detail, whose HTTP   *)
(*    requests are counted in detail_sent.                                 *)
(*  - round(x, 2) is modelled on the exact quotient, rounding half to      *)
(*    even.  Python rounds the binary double: the two agree except on      *)
(*    exact ties (a third decimal of 5 with nothing after it), where the   *)
(*    double may fall on either side; the mean of _stats on two values of  *)
(*    odd sum is such a case.                                              *)
(***************************************************************************)
EXTENDS Integers, Sequences, FiniteSets, TLC

\* ------------------------------------------------------------------------
\* Bounds of the model
\* ------------------------------------------------------------------------
MaxChilds == 2

\* movements in the upstream data
MaxMov == 2

\* items upstream puts on one page of the movement list
PageSize == 1

\* the latest request of the movement list that can fail
MaxListFailure == 2

\* stock areas in a list handed to find_area_candidates
MaxAreas == 2

\* answers upstream has ready for the HTTP requests of one teco_request call
MaxAnswers == 3

\* the failure_threshold and the reset_timeout (in ticks of the clock) a
\* CircuitBreaker is built with, the failures recorded for a host beyond
\* its threshold, the ticks of the clock
MaxThreshold == 2

MaxTimeout == 2

MaxExtraFailures == 2

MaxTime == 3

\* login calls
MaxLogins == 2

\* the ttl of a cache entry and the ticks of the cache's clock
MaxTtl == 2

MaxCacheTime == 3

\* the windows of one request the model follows: one more than any request
\* of the model whose loop ends needs
MaxWindows == 4

\* ------------------------------------------------------------------------
\* Generic helpers
\* ------------------------------------------------------------------------
None == <<>>

Some(v) == <<v>>

IsNone(o) == o = <<>>

Truthy(s) == s # ""

Abs(x) == IF x < 0 THEN -x ELSE x

Min2(a, b) == IF a <= b THEN a ELSE b

Range(s) == {s[i] : i \in 1..Len(s)}

RECURSIVE SeqsUpTo(_, _)
SeqsUpTo(S, n) ==
  IF n = 0 THEN {<<>>}
  ELSE LET prev == SeqsUpTo(S, n - 1)
       IN  prev \cup {Append(s, x) : s \in {t \in prev : Len(t) = n - 1}, x \in S}

RECURSIVE SumSeq(_)
SumSeq(s) == IF s = <<>> THEN 0 ELSE s[1] + SumSeq(Tail(s))

\* Python round() of the exact quotient num/den to an integer, ties to even.
RoundDivBankers(num, den) ==
  LET q == num \div den
      r == num % den
  IN  IF 2 * r < den THEN q
      ELSE IF 2 * r > den THEN q + 1
      ELSE IF q % 2 = 0 THEN q ELSE q + 1

\* variant: truncation instead of rounding
RoundDivFloor(num, den) == num \div den

RoundDiv(num, den) == RoundDivBankers(num, den)

\* round((a / b) * 100.0, 2), in hundredths of a percent
Pct(a, b) == RoundDiv(a * 10000, b)

\* ------------------------------------------------------------------------
\* dict helpers (insertion ordered, entries carry their key in field k)
\* ------------------------------------------------------------------------
DictKeys(d) == {d[i].k : i \in 1..Len(d)}

DictIdx(d, key) == CHOOSE i \in 1..Len(d) : d[i].k = key

DictGet(d, key) == d[DictIdx(d, key)]

\* variant: the entry is created anew on every use
DictTouchFresh(d, key, dflt) ==
  IF key \in DictKeys(d) THEN [d EXCEPT ![DictIdx(d, key)] = [dflt EXCEPT !.k = key]]
  ELSE Append(d, [dflt EXCEPT !.k = key])

\* d[key] on a defaultdict: the entry, created from dflt on first use
DictTouch(d, key, dflt) ==
  IF key \in DictKeys(d) THEN d ELSE Append(d, [dflt EXCEPT !.k = key])

DictPut(d, key, e) == [d EXCEPT ![DictIdx(d, key)] = e]

\* ------------------------------------------------------------------------
\* _compute_kpis_from_detail
\* ------------------------------------------------------------------------
ManufDefault == [k |-> 0, name |-> "", measure |-> "", qty |-> 0]

IsManufChild(ch) ==
  ch.operation = "ENTRY" /\ ch.category = "DESCOMPOSITION" /\ ch.ptype = "MANUFACTURED"

\* variant: the category is not looked at
IsWasteChildTypeOnly(ch) == ch.operation = "ENTRY" /\ ch.ptype = "WASTE"

IsWasteChild(ch) ==
  ch.operation = "ENTRY" /\ (ch.ptype = "WASTE" \/ ch.category = "WASTE")

\* "product_filter and pid not in product_filter"
FilteredOut(pid, product_filter) ==
  product_filter # <<>> /\ pid \notin Range(product_filter)

\* One iteration of "for ch in childs"; acc.raised records int(None) raising.
ChildStep(acc, ch, product_filter) ==
  IF acc.raised THEN acc
  ELSE IF IsManufChild(ch) THEN
    IF FilteredOut(ch.pid, product_filter) THEN acc
    ELSE IF ch.pid = 0 THEN [acc EXCEPT !.raised = TRUE]
    ELSE
      LET d0 == DictTouch(acc.manuf_by_product, ch.pid, ManufDefault)
          e  == DictGet(d0, ch.pid)
          e1 == [e EXCEPT !.name = ch.pname, !.measure = ch.pmeasure,
                          !.qty = e.qty + ch.quantity]
      IN  [acc EXCEPT !.manuf_total = acc.manuf_total + ch.quantity,
                      !.manuf_by_product = DictPut(d0, ch.pid, e1)]
  ELSE IF IsWasteChild(ch) THEN
    [acc EXCEPT !.waste_total = acc.waste_total + ch.quantity]
  ELSE acc

RECURSIVE ChildLoop(_, _, _)
ChildLoop(acc, childs, product_filter) ==
  IF childs = <<>> THEN acc
  ELSE ChildLoop(ChildStep(acc, Head(childs), product_filter), Tail(childs), product_filter)

\* variant: without the "if v.qty > 0" filter
UnitsMatchAnyQty(parent_measure, mbp) ==
  /\ Truthy(parent_measure)
  /\ \A i \in 1..Len(mbp) : mbp[i].measure = parent_measure

\* "parent_measure and all(v.measure == parent_measure for v in ... if v.qty > 0)"
UnitsMatch(parent_measure, mbp) ==
  /\ Truthy(parent_measure)
  /\ \A i \in 1..Len(mbp) : mbp[i].qty > 0 => mbp[i].measure = parent_measure

\* variant: == where the code has !=
UnitsDifferEq(parent_measure, mbp) ==
  \E i \in 1..Len(mbp) :
     Truthy(mbp[i].measure) /\ Truthy(parent_measure) /\ mbp[i].measure = parent_measure

\* "any(v.measure and parent_measure and v.measure != parent_measure ...)"
UnitsDiffer(parent_measure, mbp) ==
  \E i \in 1..Len(mbp) :
     Truthy(mbp[i].measure) /\ Truthy(parent_measure) /\ mbp[i].measure # parent_measure

UnitWarning(movement_id, parent_measure, mbp) ==
  [kind |-> "unidades", mid |-> movement_id, padre |-> parent_measure,
   hijos |-> [i \in 1..Len(mbp) |-> mbp[i].measure]]

ParentQty(detail) == Abs(detail.quantity)

\* Returns [raised, kpi, warnings]: the exception flag, the returned dict and
\* the warnings list after the call.
ComputeKpis(detail, product_filter, warnings) ==
  LET parent_qty     == ParentQty(detail)
      parent_measure == detail.pmeasure
      acc0 == [manuf_total |-> 0, waste_total |-> 0, manuf_by_product |-> <<>>,
               raised |-> FALSE]
      acc  == ChildLoop(acc0, detail.childs, product_filter)
      mbp  == acc.manuf_by_product
      match == UnitsMatch(parent_measure, mbp)
      rendimiento == IF match /\ parent_qty > 0
                     THEN Some(Pct(acc.manuf_total, parent_qty)) ELSE None
      warns == IF ~match /\ UnitsDiffer(parent_measure, mbp)
               THEN Append(warnings, UnitWarning(detail.id, parent_measure, mbp))
               ELSE warnings
  IN  IF acc.raised
      THEN [raised |-> TRUE, kpi |-> <<>>, warnings |-> warnings]
      ELSE [raised |-> FALSE,
            kpi |-> [movementId |-> detail.id,
                     fecha |-> detail.createdAt,
                     padre |-> [productId |-> detail.ppid, productName |-> detail.pname,
                                measure |-> parent_measure, usado |-> parent_qty],
                     manufacturados_total |-> acc.manuf_total,
                     merma_total |-> acc.waste_total,
                     rendimiento_porcentaje |-> rendimiento,
                     createdAt |-> detail.createdAt,
                     manuf_by_product |-> mbp],
            warnings |-> warns]

\* ------------------------------------------------------------------------
\* datetime: calendar date, ISO week and weekday of a day number
\* ------------------------------------------------------------------------
\* (year, month, day) of the day number z, days counted from 1970-01-01
CivilFromDays(z) ==
  LET zz  == z + 719468
      era == zz \div 146097
      doe == zz - era * 146097
      yoe == (doe - doe \div 1460 + doe \div 36524 - doe \div 146096) \div 365
      doy == doe - (365 * yoe + yoe \div 4 - yoe \div 100)
      mp  == (5 * doy + 2) \div 153
      d   == doy - (153 * mp + 2) \div 5 + 1
      m   == IF mp < 10 THEN mp + 3 ELSE mp - 9
      y   == yoe + era * 400 + (IF m <= 2 THEN 1 ELSE 0)
  IN  [year |-> y, month |-> m, day |-> d]

IsLeap(y) == (y % 4 = 0 /\ y % 100 # 0) \/ y % 400 = 0

DaysBeforeMonth(y, m) ==
  LET cum == <<0, 31, 59, 90, 120, 151, 181, 212, 243, 273, 304, 334>>
  IN  cum[m] + (IF m > 2 /\ IsLeap(y) THEN 1 ELSE 0)

\* date.weekday(): Monday is 0 (1970-01-01 was a Thursday)
Weekday(z) == (z + 3) % 7

\* date.isocalendar(): the ISO year and week are those of the week's Thursday
IsoCalendar(z) ==
  LET thu == z - Weekday(z) + 3
      c   == CivilFromDays(thu)
      yday == DaysBeforeMonth(c.year, c.month) + c.day
  IN  [year |-> c.year, week |-> (yday - 1) \div 7 + 1]

\* A string is the sequence of its character codes.
ChDash == 45

ChW == 87

Digit(n) == 48 + n

Fmt2(n) == <<Digit((n \div 10) % 10), Digit(n % 10)>>

Fmt4(n) == <<Digit((n \div 1000) % 10), Digit((n \div 100) % 10)>> \o Fmt2(n)

\* strftime("%Y-%m-%d")
FmtDate(z) ==
  LET c == CivilFromDays(z)
  IN  Fmt4(c.year) \o <<ChDash>> \o Fmt2(c.month) \o <<ChDash>> \o Fmt2(c.day)

\* str < str: lexicographic on the character codes
RECURSIVE StrLess(_, _)
StrLess(a, b) ==
  IF b = <<>> THEN FALSE
  ELSE IF a = <<>> THEN TRUE
  ELSE IF Head(a) # Head(b) THEN Head(a) < Head(b)
  ELSE StrLess(Tail(a), Tail(b))

\* _bucket_key on a parsed timestamp; the caller handles the unparsable one
BucketKey(ts, granularidad) ==
  IF granularidad = "DIA" THEN FmtDate(ts)
  ELSE IF granularidad = "SEMANA" THEN
    LET iso == IsoCalendar(ts)
    IN  Fmt4(iso.year) \o <<ChDash, ChW>> \o Fmt2(iso.week)
  ELSE LET c == CivilFromDays(ts)
       IN  Fmt4(c.year) \o <<ChDash>> \o Fmt2(c.month)

\* ------------------------------------------------------------------------
\* Area names: _norm and find_area_candidates
\* ------------------------------------------------------------------------
\* A name is a sequence of characters.  "á" is a precomposed accented letter,
\* "´" a combining accent, " " and "\t" are whitespace.
Nfkd(ch) == IF ch = "á" THEN <<"a", "´">> ELSE <<ch>>

IsCombining(ch) == ch = "´"

Lower(ch) ==
  CASE ch = "A" -> "a"
    [] ch = "B" -> "b"
    [] ch = "C" -> "c"
    [] OTHER -> ch

IsSpace(ch) == ch \in {" ", "\t"}

RECURSIVE Normalize(_)
Normalize(s) == IF s = <<>> THEN <<>> ELSE Nfkd(Head(s)) \o Normalize(Tail(s))

StripCombining(s) == SelectSeq(s, LAMBDA ch : ~IsCombining(ch))

LowerStr(s) == [i \in 1..Len(s) |-> Lower(s[i])]

\* str.strip(): the whitespace at both ends removed
RECURSIVE LStrip(_)
LStrip(s) == IF s # <<>> /\ IsSpace(Head(s)) THEN LStrip(Tail(s)) ELSE s

RECURSIVE RStrip(_)
RStrip(s) == IF s # <<>> /\ IsSpace(s[Len(s)]) THEN RStrip(SubSeq(s, 1, Len(s) - 1)) ELSE s

Strip(s) == RStrip(LStrip(s))

\* str.split(): the maximal runs of characters that are not whitespace
RECURSIVE Split(_, _)
Split(s, word) ==
  IF s = <<>> THEN (IF word = <<>> THEN <<>> ELSE <<word>>)
  ELSE IF IsSpace(Head(s))
       THEN (IF word = <<>> THEN <<>> ELSE <<word>>) \o Split(Tail(s), <<>>)
       ELSE Split(Tail(s), Append(word, Head(s)))

\* " ".join(words)
RECURSIVE Join(_)
Join(words) ==
  IF words = <<>> THEN <<>>
  ELSE IF Len(words) = 1 THEN words[1]
  ELSE words[1] \o <<" ">> \o Join(Tail(words))

\* _norm: NFKD, combining marks removed, lower case, whitespace collapsed
Norm(s) ==
  IF s = <<>> THEN <<>>
  ELSE Join(Split(LowerStr(StripCombining(Normalize(s))), <<>>))

StartsWith(n, t) == Len(t) <= Len(n) /\ SubSeq(n, 1, Len(t)) = t

\* "target in n" for a target that is not empty
Contains(n, t) ==
  /\ t # <<>>
  /\ \E i \in 1..(Len(n) - Len(t) + 1) : SubSeq(n, i, i + Len(t) - 1) = t

\* variant: an area is listed once for every bucket it is in
RECURSIVE DedupNone(_, _)
DedupNone(as, seen) ==
  IF as = <<>> THEN <<>>
  ELSE <<[id |-> Head(as).id, label |-> Head(as).name]>> \o DedupNone(Tail(as), seen)

\* the stock areas in ranked order without repeated ids
RECURSIVE Dedup(_, _)
Dedup(as, seen) ==
  IF as = <<>> THEN <<>>
  ELSE IF Head(as).id \in seen THEN Dedup(Tail(as), seen)
  ELSE <<[id |-> Head(as).id, label |-> Head(as).name]>>
         \o Dedup(Tail(as), seen \cup {Head(as).id})

\* list_stock_areas: upstream gives every area on page 1 and an empty page 2
ListStockAreasRequests(areas) == IF areas = <<>> THEN 1 ELSE 2

\* variant: a name that starts with the query counts as an exact match
ExactMatchesPrefix(normed, target) == SelectSeq(normed, LAMBDA a : StartsWith(a.n, target))

\* exact = [a for a in normed if a["_n"] == target]
ExactMatches(normed, target) == SelectSeq(normed, LAMBDA a : a.n = target)

\* find_area_candidates: (match, candidates)
FindAreaCandidates(area_name, areas) ==
  LET target   == Norm(area_name)
      normed   == [i \in 1..Len(areas) |->
                     [id |-> areas[i].id, name |-> areas[i].name, n |-> Norm(areas[i].name)]]
      exact    == ExactMatches(normed, target)
      starts   == SelectSeq(normed, LAMBDA a : StartsWith(a.n, target))
      contains == SelectSeq(normed, LAMBDA a : Contains(a.n, target))
      ranked   == Dedup(starts \o contains, {})
  IN  IF exact # <<>>
      THEN IF Len(exact) = 1
           THEN [match |-> Some([id |-> exact[1].id, name |-> exact[1].name]),
                 candidates |-> <<>>]
           ELSE [match |-> None,
                 candidates |-> [i \in 1..Len(exact) |->
                                   [id |-> exact[i].id, label |-> exact[i].name]]]
      ELSE IF Len(ranked) = 1
      THEN [match |-> Some([id |-> ranked[1].id, name |-> ranked[1].label]),
            candidates |-> <<>>]
      ELSE [match |-> None, candidates |-> ranked]

\* ------------------------------------------------------------------------
\* Upstream (Tecopos) as the client sees it
\* ------------------------------------------------------------------------
\* iter_parent_movements: the items of one page of the movement list of the
\* window [date_from, date_to]; an empty page ends the listing
WindowItems(movs, date_from, date_to) ==
  SelectSeq(movs, LAMBDA m : date_from <= m.day /\ m.day <= date_to)

\* An upstream that is "endless" ignores the page number: it answers every
\* page request with the first page.
PageItems(movs, date_from, date_to, p, page_size, endless) ==
  LET all == WindowItems(movs, date_from, date_to)
      q   == IF endless THEN 1 ELSE p
      lo  == (q - 1) * page_size + 1
      hi  == Min2(q * page_size, Len(all))
  IN  SubSeq(all, lo, hi)

MovementById(movs, mid) == movs[CHOOSE i \in 1..Len(movs) : movs[i].detail.id = mid]

\* teco_request(..., retries=2)
Retries == 2

RETRY_STATUS == {429, 502, 503, 504}

\* The handler of a transport exception calls json.dumps, where json is the
\* parameter of teco_request (None or a dict), not the module: the handler
\* raises AttributeError before it reaches its "raise".
TransportHandlerRaises == "AttributeError"

\* teco_request: "answers" are the answers upstream gives to the successive
\* HTTP requests of one call (the last one is repeated), a status code or 0
\* when the transport raises.  Returns whether the call raises, the exception
\* that leaves it, the status of the response returned and the number of
\* HTTP requests sent.
\* variant: a retriable status is returned at once
RECURSIVE TecoAttemptNoRetry(_, _, _)
TecoAttemptNoRetry(answers, attempt, retries) ==
  LET a == answers[Min2(attempt + 1, Len(answers))]
  IN  IF a = 0 THEN [raised |-> TRUE, exc |-> TransportHandlerRaises, status |-> 0,
                     sent |-> attempt + 1]
      ELSE [raised |-> FALSE, exc |-> "", status |-> a, sent |-> attempt + 1]

RECURSIVE TecoAttempt(_, _, _)
TecoAttempt(answers, attempt, retries) ==
  LET a == answers[Min2(attempt + 1, Len(answers))]
  IN  IF a = 0 THEN [raised |-> TRUE, exc |-> TransportHandlerRaises, status |-> 0,
                     sent |-> attempt + 1]
      ELSE IF a \in RETRY_STATUS /\ attempt < retries
      THEN TecoAttempt(answers, attempt + 1, retries)
      ELSE [raised |-> FALSE, exc |-> "", status |-> a, sent |-> attempt + 1]

TecoRequest(answers) == TecoAttempt(answers, 0, Retries)

\* get_movement_detail: the payload, or an exception when the transport
\* fails ("exc") or the status is not 2xx ("http"); "sent" is the number of
\* HTTP requests the call sent
GetMovementDetail(movs, mid) ==
  LET m == MovementById(movs, mid)
      r == TecoRequest(m.answers)
  IN  IF r.raised
      THEN [raised |-> TRUE, exc |-> "exc", detail |-> m.detail, sent |-> r.sent]
      ELSE IF ~(200 <= r.status /\ r.status < 300)
      THEN [raised |-> TRUE, exc |-> "http", detail |-> m.detail, sent |-> r.sent]
      ELSE [raised |-> FALSE, exc |-> "", detail |-> m.detail, sent |-> r.sent]

\* ------------------------------------------------------------------------
\* _fetch_detail: the body of one pool task
\* ------------------------------------------------------------------------
ErrorWarning(mid, exc) == [kind |-> "error", mid |-> mid, detail |-> exc]

\* variant: the list is rebound instead of appended to
AppendWarningRebind(ws, w) == <<w>>

\* list.append from a worker thread
AppendWarning(ws, w) == Append(ws, w)

\* Returns [raised, result, warnings]: whether an exception leaves the task
\* ("except Exception" lets none out), the task's return value (None on
\* failure) and the shared warnings list after the task.
\* variant: a failed detail call leaves no warning
FetchDetailSilent(movs, mid, product_filter, ws) ==
  LET got == GetMovementDetail(movs, mid)
      r   == ComputeKpis(got.detail, product_filter, ws)
  IN  IF got.raised
      THEN [raised |-> FALSE, result |-> None, warnings |-> ws]
      ELSE IF r.raised
      THEN [raised |-> FALSE, result |-> None,
            warnings |-> AppendWarning(ws, ErrorWarning(mid, "TypeError"))]
      ELSE [raised |-> FALSE, result |-> Some(r.kpi), warnings |-> r.warnings]

\* variant: no try/except around the detail call
FetchDetailNoCatch(movs, mid, product_filter, ws) ==
  LET got == GetMovementDetail(movs, mid)
      r   == ComputeKpis(got.detail, product_filter, ws)
  IN  IF got.raised \/ r.raised
      THEN [raised |-> TRUE, result |-> None, warnings |-> ws]
      ELSE [raised |-> FALSE, result |-> Some(r.kpi), warnings |-> r.warnings]

FetchDetail(movs, mid, product_filter, ws) ==
  LET got == GetMovementDetail(movs, mid)
      r   == ComputeKpis(got.detail, product_filter, ws)
  IN  IF got.raised
      THEN [raised |-> FALSE, result |-> None,
            warnings |-> AppendWarning(ws, ErrorWarning(mid, got.exc))]
      ELSE IF r.raised
      THEN [raised |-> FALSE, result |-> None,
            warnings |-> AppendWarning(ws, ErrorWarning(mid, "TypeError"))]
      ELSE [raised |-> FALSE, result |-> Some(r.kpi), warnings |-> r.warnings]

\* ------------------------------------------------------------------------
\* Aggregation of one completed task (body of the as_completed loop)
\* ------------------------------------------------------------------------
SeriesDefault == [k |-> <<>>, usado |-> 0, manuf |-> 0, merma |-> 0]

ProdDefault ==
  [k |-> 0, name |-> "", measure |-> "", mov |-> 0, usado |-> 0, manuf |-> 0,
   merma |-> 0, rend_list |-> <<>>]

\* variant: a row is added for every movement
AddToSeriesNoMerge(series, b, kpi) ==
  Append(series, [k |-> b, usado |-> kpi.padre.usado, manuf |-> kpi.manufacturados_total,
                  merma |-> kpi.merma_total])

AddToSeries(series, b, kpi) ==
  LET d0 == DictTouch(series, b, SeriesDefault)
      e  == DictGet(d0, b)
  IN  DictPut(d0, b, [e EXCEPT !.usado = e.usado + kpi.padre.usado,
                               !.manuf = e.manuf + kpi.manufacturados_total,
                               !.merma = e.merma + kpi.merma_total])

\* pa["name"] = info.get("name") or pa["name"]
ProdName(info_name, pa_name) == IF Truthy(info_name) THEN info_name ELSE pa_name

\* if info.get("measure"): pa["measure"] = info.get("measure")
ProdMeasure(info_measure, pa_measure) ==
  IF Truthy(info_measure) THEN info_measure ELSE pa_measure

\* variant: the parent quantity is split among the products of the movement
AddToProductSplit(prods, info, kpi) ==
  LET d0 == DictTouch(prods, info.k, ProdDefault)
      pa == DictGet(d0, info.k)
      share == IF kpi.manufacturados_total > 0
               THEN (kpi.padre.usado * info.qty) \div kpi.manufacturados_total
               ELSE 0
  IN  DictPut(d0, info.k,
        [pa EXCEPT !.name = ProdName(info.name, pa.name),
                   !.measure = ProdMeasure(info.measure, pa.measure),
                   !.mov = pa.mov + 1,
                   !.usado = pa.usado + share,
                   !.manuf = pa.manuf + info.qty,
                   !.merma = pa.merma + kpi.merma_total,
                   !.rend_list = IF IsNone(kpi.rendimiento_porcentaje) THEN pa.rend_list
                                 ELSE Append(pa.rend_list, kpi.rendimiento_porcentaje[1])])

AddToProduct(prods, info, kpi) ==
  LET d0 == DictTouch(prods, info.k, ProdDefault)
      pa == DictGet(d0, info.k)
  IN  DictPut(d0, info.k,
        [pa EXCEPT !.name = ProdName(info.name, pa.name),
                   !.measure = ProdMeasure(info.measure, pa.measure),
                   !.mov = pa.mov + 1,
                   !.usado = pa.usado + kpi.padre.usado,
                   !.manuf = pa.manuf + info.qty,
                   !.merma = pa.merma + kpi.merma_total,
                   !.rend_list = IF IsNone(kpi.rendimiento_porcentaje) THEN pa.rend_list
                                 ELSE Append(pa.rend_list, kpi.rendimiento_porcentaje[1])])

RECURSIVE AddProducts(_, _, _)
AddProducts(prods, mbp, kpi) ==
  IF mbp = <<>> THEN prods
  ELSE AddProducts(AddToProduct(prods, Head(mbp), kpi), Tail(mbp), kpi)

MovimientoRow(kpi) ==
  [movementId |-> kpi.movementId, fecha |-> kpi.fecha, padre |-> kpi.padre,
   manufacturados_total |-> kpi.manufacturados_total,
   merma_total |-> kpi.merma_total,
   rendimiento_porcentaje |-> kpi.rendimiento_porcentaje]

\* ------------------------------------------------------------------------
\* Closing the aggregates
\* ------------------------------------------------------------------------
\* round((manuf / usado) * 100.0, 2) if usado > 0 else None
Ratio(manuf, usado) == IF usado > 0 THEN Some(Pct(manuf, usado)) ELSE None

SeriesRow(e) ==
  [bucket |-> e.k, padre_usado |-> e.usado, manufacturados |-> e.manuf,
   merma |-> e.merma, rendimiento_porcentaje |-> Ratio(e.manuf, e.usado)]

\* sorted(series_aggr.items(), key=lambda kv: kv[0]): ascending and stable
RECURSIVE SortedByKey(_)
SortedByKey(d) ==
  IF d = <<>> THEN <<>>
  ELSE LET i == CHOOSE j \in 1..Len(d) :
                  \A l \in 1..Len(d) :
                     /\ ~StrLess(d[l].k, d[j].k)
                     /\ l < j => d[l].k # d[j].k
       IN  <<d[i]>> \o SortedByKey(SubSeq(d, 1, i - 1) \o SubSeq(d, i + 1, Len(d)))

\* variant: the rows are left in insertion order
SeriesOrderUnsorted(d) == d

SeriesOrder(d) == SortedByKey(d)

Series(series) ==
  LET o == SeriesOrder(series) IN [i \in 1..Len(o) |-> SeriesRow(o[i])]

RECURSIVE MinSeq(_)
MinSeq(s) == IF Len(s) = 1 THEN s[1] ELSE Min2(s[1], MinSeq(Tail(s)))

RECURSIVE MaxSeq(_)
MaxSeq(s) == IF Len(s) = 1 THEN s[1]
             ELSE LET t == MaxSeq(Tail(s)) IN IF s[1] >= t THEN s[1] ELSE t

\* largest r in lo..hi with r * r <= n
RECURSIVE ISqrtIn(_, _, _)
ISqrtIn(lo, hi, n) ==
  IF lo >= hi THEN lo
  ELSE LET mid == (lo + hi + 1) \div 2
       IN  IF mid * mid <= n THEN ISqrtIn(mid, hi, n) ELSE ISqrtIn(lo, mid - 1, n)

\* round(sqrt(num / den)) to an integer
RoundSqrt(num, den) ==
  LET s0 == ISqrtIn(0, 46340, num \div den)
  IN  IF 4 * (num - (s0 * s0 + s0) * den) < den THEN s0 ELSE s0 + 1

\* variant: the population divisor
StdDivisorPopulation(n) == n

\* the divisor of the variance: len(values) - 1
StdDivisor(n) == n - 1

\* _stats: (mean, min, max, sample standard deviation), each rounded to 2
\* decimals.  The variance is computed on the values shifted by their
\* minimum, which leaves it unchanged.
Stats(values) ==
  IF values = <<>> THEN [prom |-> None, minv |-> None, maxv |-> None, std |-> None]
  ELSE
    LET n    == Len(values)
        minv == MinSeq(values)
        dev  == [i \in 1..n |-> values[i] - minv]
        s1   == SumSeq(dev)
        s2   == SumSeq([i \in 1..n |-> dev[i] * dev[i]])
        std  == IF n > 1 THEN RoundSqrt(n * s2 - s1 * s1, n * StdDivisor(n)) ELSE 0
    IN  [prom |-> Some(RoundDiv(SumSeq(values), n)), minv |-> Some(minv),
         maxv |-> Some(MaxSeq(values)), std |-> Some(std)]

ProductRow(info) ==
  LET st == Stats(info.rend_list)
  IN  [productId |-> info.k, productName |-> info.name, measure |-> info.measure,
       movimientos |-> info.mov, usado_padre |-> info.usado,
       manufacturados |-> info.manuf, merma |-> info.merma,
       rendimiento_promedio |-> st.prom, rendimiento_min |-> st.minv,
       rendimiento_max |-> st.maxv, rendimiento_stddev |-> st.std]

PorProducto(prods) == [i \in 1..Len(prods) |-> ProductRow(prods[i])]

Resumen(usado, manuf, merma) ==
  [padre_usado |-> usado, manufacturados |-> manuf, merma |-> merma,
   rendimiento_ponderado_porcentaje |-> Ratio(manuf, usado)]

\* ------------------------------------------------------------------------
\* State
\* ------------------------------------------------------------------------
\* classifier called on its own
VARIABLES k_pc, k_detail, k_filter, k_warn0, k_out

\* find_area_candidates called on its own
VARIABLES a_pc, a_query, a_areas, a_out

\* the world around one request: the body, the upstream data, the sessions
VARIABLES body, ups, user_context

\* rendimiento_descomposicion_post: what the route answers
VARIABLES http

\* teco_request called on its own: position, the answers upstream will give,
\* the retries argument, the attempt counter, the answers got so far, the
\* outcome of the call
VARIABLES t_pc, t_answers, t_retries, t_attempt, t_log, t_out

\* rendimiento_descomposicion_service: position, locals, result
VARIABLES pc, params, cur, chunk_end, page, list_calls, ids_en_chunk, futures,
          warnings, total_usado, total_manuf, total_merma, series_aggr, prod_aggr,
          movimientos_kpi, response

\* history: the movement ids aggregated by the as_completed loop, in order;
\* the windows opened, in order; the page requests of the movement list, in
\* order; the number of HTTP requests sent for the detail of each movement;
\* the number of HTTP requests sent for the list of stock areas
VARIABLES aggregated, windows, list_log, detail_sent, area_calls

histvars == <<aggregated, windows, list_log, detail_sent, area_calls>>

kvars == <<k_pc, k_detail, k_filter, k_warn0, k_out>>

avars == <<a_pc, a_query, a_areas, a_out>>

envvars == <<body, ups, user_context>>

tvars == <<t_pc, t_answers, t_retries, t_attempt, t_log, t_out>>

\* CircuitBreaker: the object, the clock (time.time()), the last call made
\* and what it returned, the history of the calls of each host
VARIABLES cb, cb_now, cb_ret, cb_hist

cbvars == <<cb, cb_now, cb_ret, cb_hist>>

\* Login: the dict user_context of the package app.utils (the session store
\* of the model, user_context, is the one of app.core.context), the last
\* login call and how it ended, the user names a login has succeeded for
VARIABLES utils_user_context, login, logged_in

authvars == <<utils_user_context, login, logged_in>>

\* TTLCache: _store, the clock (time.time()), the last call made with its
\* time, what it returned and the store before it, the last set of each key
\* since the last clear
VARIABLES cache_store, cache_now, cache_ret, cache_hist

cachevars == <<cache_store, cache_now, cache_ret, cache_hist>>

\* what the steps of the service leave alone
xvars == <<http, tvars, cbvars, authvars, cachevars>>

aggvars == <<total_usado, total_manuf, total_merma, series_aggr, prod_aggr, movimientos_kpi>>

loopvars == <<cur, chunk_end, page, list_calls, ids_en_chunk>>

svars == <<pc, params, loopvars, futures, warnings, aggvars, response, histvars>>

vars == <<kvars, avars, xvars, envvars, svars>>

\* ------------------------------------------------------------------------
\* The request bodies, sessions and upstream data of the model
\* ------------------------------------------------------------------------
\* 2024-12-31 and 2025-01-01: two days, two months, one ISO week
D1 == 20088

D2 == 20089

\* _today_ny()
Today == D2

\* A user name is a sequence of characters, as an area name is.
Ana == <<"a", "n", "a">>

Bob == <<"b", "o", "b">>

Sessions == [u \in {Ana} |-> [token |-> "t", businessId |-> 1, region |-> "api1"]]

\* "Ca" and "cáb": the query "ca" names the first exactly and is a prefix of
\* the second
StockAreas == <<[id |-> 7, name |-> <<"C", "a">>], [id |-> 8, name |-> <<"c", "á", "b">>]>>

\* three areas with an "x" inside their name
ThreeAreas ==
  <<[id |-> 31, name |-> <<"a", "x">>], [id |-> 32, name |-> <<"b", "X">>],
    [id |-> 33, name |-> <<"a", "x", "b">>]>>

\* upstream lists the area 34 twice; the name of 35 starts with "x"
RepeatedAreas ==
  <<[id |-> 34, name |-> <<"a", "x">>], [id |-> 35, name |-> <<"x", "a">>],
    [id |-> 34, name |-> <<"a", "x">>]>>

\* the candidates an ask payload carries: candidates[:10]
MaxAskCandidates == 10

\* one area more than an ask payload carries: "xa" at the even positions,
\* "ax" at the odd ones
ManyAreas ==
  [i \in 1..(MaxAskCandidates + 1) |->
     [id |-> 40 + i, name |-> IF i % 2 = 0 THEN <<"x", "a">> ELSE <<"a", "x">>]]

\* an area whose name holds the name of no other
OneArea == <<[id |-> 36, name |-> <<"b", "x">>]>>

UpstreamAreaLists == {<<>>, OneArea, ThreeAreas, RepeatedAreas, ManyAreas}

\* Fields of the body: "", <<>> and 0 are an absent value, a date of -1 is a
\* string that is not YYYY-MM-DD, a product id of 0 is an element int()
\* rejects.
DefaultBody ==
  [usuario |-> Ana, area_id |-> 7, area_nombre |-> <<>>, modo_asistente |-> FALSE,
   fecha_inicio |-> D1, fecha_fin |-> D2, granularidad |-> "",
   product_ids |-> <<>>, incluir_movimientos |-> TRUE,
   chunk_days |-> 0, max_concurrency |-> 0, modo_agregado |-> FALSE]

Bodies ==
  {[DefaultBody EXCEPT !.granularidad = g, !.product_ids = f, !.chunk_days = c,
                       !.max_concurrency = w] :
     g \in {"", "SEMANA", "MES"}, f \in {<<>>, <<1>>}, c \in {0, 1}, w \in {0, 1}}
  \cup {[DefaultBody EXCEPT !.usuario = u] : u \in {<<>>, Bob}}
  \cup {[DefaultBody EXCEPT !.area_id = 0, !.modo_asistente = a] : a \in BOOLEAN}
  \cup {[DefaultBody EXCEPT !.area_id = 0, !.area_nombre = n] :
          n \in {<<"c", "a">>, <<"C">>, <<"b">>, <<"x">>, <<" ">>}}
  \cup {[DefaultBody EXCEPT !.area_id = 9]}
  \cup {[DefaultBody EXCEPT !.fecha_inicio = D2, !.fecha_fin = D1]}
  \cup {[DefaultBody EXCEPT !.fecha_inicio = D2 - 64, !.chunk_days = c] : c \in {0, 31}}
  \cup {[DefaultBody EXCEPT !.fecha_inicio = D1 - 3, !.chunk_days = 2]}
  \cup {[DefaultBody EXCEPT !.chunk_days = -1]}
  \cup {[DefaultBody EXCEPT !.fecha_inicio = a, !.fecha_fin = b] :
          a \in {0, D1}, b \in {0, -1}}
  \cup {[DefaultBody EXCEPT !.granularidad = "ANUAL"]}
  \cup {[DefaultBody EXCEPT !.product_ids = <<1, 0>>]}
  \cup {[DefaultBody EXCEPT !.incluir_movimientos = i, !.modo_agregado = m] :
          i \in BOOLEAN, m \in BOOLEAN}
  \cup {[DefaultBody EXCEPT !.max_concurrency = -1]}

ManufChild(pid, name, measure, qty) ==
  [operation |-> "ENTRY", category |-> "DESCOMPOSITION", ptype |-> "MANUFACTURED",
   pid |-> pid, pname |-> name, pmeasure |-> measure, quantity |-> qty]

WasteChild(qty) ==
  [operation |-> "ENTRY", category |-> "WASTE", ptype |-> "WASTE",
   pid |-> 3, pname |-> "W", pmeasure |-> "kg", quantity |-> qty]

\* What upstream holds for one movement: its day, its answers to the
\* successive HTTP requests for its detail, whether the payload carries
\* createdAt, the parent quantity and the childs
Templates ==
  { [day |-> D1, answers |-> <<200>>, dated |-> TRUE, quantity |-> -10,
     childs |-> <<ManufChild(1, "A", "kg", 8), WasteChild(1)>>],
    [day |-> D2, answers |-> <<200>>, dated |-> TRUE, quantity |-> -4,
     childs |-> <<ManufChild(1, "A2", "kg", 1), ManufChild(2, "B", "kg", 2)>>],
    [day |-> D1, answers |-> <<200>>, dated |-> TRUE, quantity |-> -5,
     childs |-> <<ManufChild(2, "B", "lb", 3)>>],
    [day |-> D2, answers |-> <<200>>, dated |-> TRUE, quantity |-> 0,
     childs |-> <<ManufChild(1, "", "", 2)>>],
    [day |-> D1, answers |-> <<200>>, dated |-> TRUE, quantity |-> -6,
     childs |-> <<ManufChild(0, "A", "kg", 3)>>],
    [day |-> D1, answers |-> <<200>>, dated |-> FALSE, quantity |-> -2,
     childs |-> <<ManufChild(1, "A", "kg", 1)>>],
    [day |-> D1, answers |-> <<404>>, dated |-> TRUE, quantity |-> -10,
     childs |-> <<ManufChild(1, "A", "kg", 8)>>],
    [day |-> D2, answers |-> <<0>>, dated |-> TRUE, quantity |-> -10,
     childs |-> <<ManufChild(1, "A", "kg", 8)>>],
    [day |-> D2, answers |-> <<503>>, dated |-> TRUE, quantity |-> -10,
     childs |-> <<ManufChild(1, "A", "kg", 8)>>],
    [day |-> D1, answers |-> <<503, 200>>, dated |-> TRUE, quantity |-> -10,
     childs |-> <<ManufChild(2, "B", "kg", 5)>>] }

Movement(id, t) ==
  [day |-> t.day, answers |-> t.answers,
   detail |-> [id |-> id, quantity |-> t.quantity, pmeasure |-> "kg", pname |-> "P",
               ppid |-> 9, createdAt |-> IF t.dated THEN t.day ELSE 0,
               childs |-> t.childs]]

\* the movement ids upstream gives out
MovId(i) == 10 + i

Datasets ==
  {[i \in 1..Len(ts) |-> Movement(MovId(i), ts[i])] : ts \in SeqsUpTo(Templates, MaxMov)}

\* The n-th request of the movement list fails (n = 0: none does): upstream
\* answers a status that is not 2xx ("http") or the transport raises ("exc")
NoListFailure == [n |-> 0, kind |-> "http"]

ListFailures == {NoListFailure} \cup [n : 1..MaxListFailure, kind : {"http", "exc"}]

\* the page requests of one listing the model follows: one more than any
\* listing that ends needs
MaxPages == MaxMov + 2

Upstreams ==
  [movs : Datasets, list_fail : ListFailures, endless : {FALSE}, areas : {StockAreas}]
  \cup [movs : Datasets \ {<<>>}, list_fail : {NoListFailure}, endless : {TRUE},
         areas : {StockAreas}]
  \cup [movs : {<<>>}, list_fail : {NoListFailure}, endless : {FALSE}, areas : UpstreamAreaLists]

\* ------------------------------------------------------------------------
\* rendimiento_descomposicion_service
\* ------------------------------------------------------------------------
NoParams ==
  [area_id |-> 0, area_name |-> <<>>, fecha_inicio |-> 0, fecha_fin |-> 0,
   fi_dt |-> 0, ff_dt |-> 0, granularidad |-> "", product_filter |-> <<>>,
   incluir_movs |-> FALSE, chunk_days |-> 0, max_concurrency |-> 0]

NoResponse == [kind |-> "none"]

NoHttp == [kind |-> "none"]

ServiceLocalsInit ==
  /\ params = NoParams
  /\ cur = 0
  /\ chunk_end = 0
  /\ page = 0
  /\ list_calls = 0
  /\ ids_en_chunk = <<>>
  /\ futures = <<>>
  /\ warnings = <<>>
  /\ total_usado = 0
  /\ total_manuf = 0
  /\ total_merma = 0
  /\ series_aggr = <<>>
  /\ prod_aggr = <<>>
  /\ movimientos_kpi = None
  /\ response = NoResponse
  /\ aggregated = <<>>
  /\ windows = <<>>
  /\ list_log = <<>>
  /\ detail_sent = [id \in {ups.movs[i].detail.id : i \in 1..Len(ups.movs)} |-> 0]
  /\ area_calls = 0

\* the calls the other specifications follow are not made
TIdle ==
  /\ t_pc = "idle"
  /\ t_answers = <<>>
  /\ t_retries = 0
  /\ t_attempt = 0
  /\ t_log = <<>>
  /\ t_out = <<>>

CacheIdle ==
  /\ cache_store = <<>>
  /\ cache_now = 0
  /\ cache_ret = <<>>
  /\ cache_hist = <<>>

AuthIdle ==
  /\ utils_user_context = <<>>
  /\ login = <<>>
  /\ logged_in = {}

CbIdle ==
  /\ cb = <<>>
  /\ cb_now = 0
  /\ cb_ret = <<>>
  /\ cb_hist = <<>>

Init ==
  /\ body \in Bodies
  /\ ups \in Upstreams
  /\ user_context = Sessions
  /\ pc = "entry"
  /\ ServiceLocalsInit
  /\ http = NoHttp
  /\ TIdle
  /\ CbIdle
  /\ AuthIdle
  /\ CacheIdle
  /\ k_pc = "idle"
  /\ k_detail = <<>>
  /\ k_filter = <<>>
  /\ k_warn0 = <<>>
  /\ k_out = <<>>
  /\ a_pc = "idle"
  /\ a_query = <<>>
  /\ a_areas = <<>>
  /\ a_out = <<>>

\* raise: the request ends with an error instead of a result
Error(status, exc, at) == [kind |-> "error", status |-> status, exc |-> exc, at |-> at]

Raise(status, exc, at) ==
  /\ response' = Error(status, exc, at)
  /\ pc' = "raised"

\* variant: every user name has a session
GetUserContextAny(username) == TRUE

\* get_user_context
GetUserContext(username) == username \in DOMAIN user_context

\* "usuario" and session checks
CheckSession ==
  /\ pc = "entry"
  /\ IF body.usuario = <<>> THEN Raise(400, "HTTPException", "session")
     ELSE IF ~GetUserContext(body.usuario) THEN Raise(403, "HTTPException", "session")
     ELSE pc' = "area" /\ UNCHANGED response
  /\ UNCHANGED <<kvars, avars, xvars, envvars, params, loopvars, futures, warnings, aggvars, histvars>>

AreaName(areas, area_id) ==
  IF \E i \in 1..Len(areas) : areas[i].id = area_id
  THEN areas[CHOOSE i \in 1..Len(areas) : areas[i].id = area_id].name
  ELSE <<>>

\* the ask payload of a request without area: up to 15 areas
AskArea(areas) ==
  [kind |-> "ask", status |-> "ask", intent |-> "rendimiento_descomposicion",
   options |-> [i \in 1..Min2(Len(areas), 15) |->
                  [id |-> areas[i].id, label |-> areas[i].name]]]

\* the ask payload of an ambiguous name: up to 10 candidates
AskCandidates(candidates) ==
  [kind |-> "ask", status |-> "ask", intent |-> "rendimiento_descomposicion",
   options |-> SubSeq(candidates, 1, Min2(Len(candidates), MaxAskCandidates))]

\* _resolve_area_or_ask and the service's handling of its result
ResolveArea ==
  /\ pc = "area"
  /\ IF body.area_id # 0
     THEN /\ params' = [params EXCEPT !.area_id = body.area_id,
                                      !.area_name = AreaName(ups.areas, body.area_id)]
          /\ area_calls' = area_calls + ListStockAreasRequests(ups.areas)
          /\ pc' = "inputs"
          /\ UNCHANGED response
     ELSE IF body.area_nombre # <<>>
     THEN LET r == FindAreaCandidates(body.area_nombre, ups.areas)
          IN  /\ area_calls' = area_calls + ListStockAreasRequests(ups.areas)
              /\ IF ~IsNone(r.match)
                 THEN /\ params' = [params EXCEPT !.area_id = r.match[1].id,
                                                  !.area_name = r.match[1].name]
                      /\ pc' = "inputs"
                      /\ UNCHANGED response
                 ELSE IF r.candidates # <<>>
                 THEN /\ response' = AskCandidates(r.candidates)
                      /\ pc' = "returned"
                      /\ UNCHANGED params
                 ELSE Raise(400, "HTTPException", "area") /\ UNCHANGED params
     ELSE IF body.modo_asistente
     THEN /\ response' = AskArea(ups.areas)
          /\ area_calls' = area_calls + ListStockAreasRequests(ups.areas)
          /\ pc' = "returned"
          /\ UNCHANGED params
     ELSE Raise(400, "HTTPException", "area") /\ UNCHANGED <<params, area_calls>>
  /\ UNCHANGED <<kvars, avars, xvars, envvars, loopvars, futures, warnings, aggvars, aggregated, windows,
                 list_log, detail_sent>>


\* int(body.get(key) or default)
IntOr(v, default) == IF v # 0 THEN v ELSE default

DefaultChunkDays == 30

DefaultMaxConcurrency == 8

\* (body.get("granularidad") or "DIA").upper(), "DIA" when not a granularity
Granularidad(g) == IF g \in {"DIA", "SEMANA", "MES"} THEN g ELSE "DIA"

\* "incluir_movimientos", forced off by "modo_agregado"
\* variant: modo_agregado is not looked at
IncluirMovsAlways(incluir_movimientos, modo_agregado) == incluir_movimientos

IncluirMovs(incluir_movimientos, modo_agregado) == incluir_movimientos /\ ~modo_agregado

\* dates, granularity, product filter, flags, tuning; then the accumulators
ParseInputs ==
  /\ pc = "inputs"
  /\ LET both_missing == body.fecha_inicio = 0 /\ body.fecha_fin = 0
         fecha_inicio == IF both_missing THEN Today
                         ELSE IF body.fecha_inicio = 0 THEN body.fecha_fin
                         ELSE body.fecha_inicio
         fecha_fin    == IF both_missing THEN Today
                         ELSE IF body.fecha_fin = 0 THEN body.fecha_inicio
                         ELSE body.fecha_fin
         incluir      == IncluirMovs(body.incluir_movimientos, body.modo_agregado)
     IN  IF fecha_inicio = -1 \/ fecha_fin = -1 THEN
           /\ Raise(500, "ValueError", "inputs")
           /\ UNCHANGED <<params, cur, movimientos_kpi>>
         ELSE IF 0 \in Range(body.product_ids) THEN
           /\ Raise(400, "HTTPException", "inputs")
           /\ UNCHANGED <<params, cur, movimientos_kpi>>
         ELSE
           /\ params' = [params EXCEPT
                 !.fecha_inicio = fecha_inicio, !.fecha_fin = fecha_fin,
                 !.fi_dt = fecha_inicio, !.ff_dt = fecha_fin,
                 !.granularidad = Granularidad(body.granularidad),
                 !.product_filter = body.product_ids,
                 !.incluir_movs = incluir,
                 !.chunk_days = IntOr(body.chunk_days, DefaultChunkDays),
                 !.max_concurrency = IntOr(body.max_concurrency, DefaultMaxConcurrency)]
           /\ movimientos_kpi' = IF incluir THEN Some(<<>>) ELSE None
           /\ cur' = fecha_inicio
           /\ pc' = "while"
           /\ UNCHANGED response
  /\ UNCHANGED <<kvars, avars, xvars, envvars, chunk_end, page, list_calls, ids_en_chunk, futures,
                 warnings, total_usado, total_manuf, total_merma, series_aggr, prod_aggr,
                 histvars>>

\* variant: the window ends chunk_days after its first day
ChunkEndExclusive(c, chunk_days, ff_dt) == Min2(c + chunk_days, ff_dt)

\* min(cur + timedelta(days=chunk_days - 1), ff_dt)
ChunkEnd(c, chunk_days, ff_dt) == Min2(c + chunk_days - 1, ff_dt)

\* "while cur <= ff_dt": a new window
WindowOpen ==
  /\ pc = "while"
  /\ cur <= params.ff_dt
  /\ Len(windows) < MaxWindows
  /\ chunk_end' = ChunkEnd(cur, params.chunk_days, params.ff_dt)
  /\ ids_en_chunk' = <<>>
  /\ page' = 1
  /\ windows' = Append(windows, [from |-> cur, to |-> chunk_end'])
  /\ pc' = "list"
  /\ UNCHANGED <<kvars, avars, xvars, envvars, params, cur, list_calls, futures, warnings, aggvars, response, aggregated, list_log, detail_sent, area_calls>>

\* One page request of iter_parent_movements and the service's loop over
\* the items it yields.  One step is one call of teco_request.
\* variant: the generator goes on after an empty page
IterStopsNever(items) == FALSE

\* "if not items: break"
IterStops(items) == items = <<>>

ListPage ==
  /\ pc = "list"
  /\ page <= MaxPages
  /\ list_calls' = list_calls + 1
  /\ IF ups.list_fail.n = list_calls + 1
     THEN /\ IF ups.list_fail.kind = "http"
             THEN Raise(502, "HTTPException", "list")
             ELSE Raise(500, "Exception", "list")
          /\ list_log' = Append(list_log, [w |-> Len(windows), page |-> page,
                                           failed |-> TRUE, ids |-> <<>>])
          /\ UNCHANGED <<ids_en_chunk, page>>
     ELSE LET items == PageItems(ups.movs, cur, chunk_end, page, PageSize, ups.endless)
              ids   == [i \in 1..Len(items) |-> items[i].detail.id]
          IN  /\ list_log' = Append(list_log, [w |-> Len(windows), page |-> page,
                                               failed |-> FALSE, ids |-> ids])
              /\ IF IterStops(items)
                 THEN pc' = "pool" /\ UNCHANGED <<ids_en_chunk, page>>
                 ELSE /\ ids_en_chunk' = ids_en_chunk \o ids
                      /\ page' = page + 1
                      /\ pc' = "list"
              /\ UNCHANGED response
  /\ UNCHANGED <<kvars, avars, xvars, envvars, params, cur, chunk_end, futures, warnings, aggvars,
                 aggregated, windows, detail_sent, area_calls>>

\* "if ids_en_chunk": the pool is created and every id is submitted;
\* ThreadPoolExecutor raises ValueError when max_workers <= 0
Submit ==
  /\ pc = "pool"
  /\ ids_en_chunk # <<>>
  /\ IF params.max_concurrency <= 0
     THEN Raise(500, "ValueError", "pool") /\ UNCHANGED futures
     ELSE /\ futures' = [i \in 1..Len(ids_en_chunk) |->
                           [mid |-> ids_en_chunk[i], st |-> "queued", raised |-> FALSE,
                            result |-> None, yielded |-> FALSE]]
          /\ pc' = "as_completed"
          /\ UNCHANGED response
  /\ UNCHANGED <<kvars, avars, xvars, envvars, params, loopvars, warnings, aggvars, histvars>>

\* "cur = chunk_end + one_day" of a window without movements
SkipEmptyWindow ==
  /\ pc = "pool"
  /\ ids_en_chunk = <<>>
  /\ cur' = chunk_end + 1
  /\ pc' = "while"
  /\ UNCHANGED <<kvars, avars, xvars, envvars, params, chunk_end, page, list_calls, ids_en_chunk,
                 futures, warnings, aggvars, response, histvars>>

Running(fs) == {i \in 1..Len(fs) : fs[i].st = "running"}

\* variant: a thread for every task
PoolUnbounded(fs, max_workers) == TRUE

\* ThreadPoolExecutor(max_workers): a thread is free or can still be created
PoolHasFreeThread(fs, max_workers) == Cardinality(Running(fs)) < max_workers

\* a free pool thread takes the oldest queued task and sends the detail request
WorkerStart(i) ==
  /\ futures[i].st = "queued"
  /\ \A j \in 1..(i - 1) : futures[j].st # "queued"
  /\ PoolHasFreeThread(futures, params.max_concurrency)
  /\ futures' = [futures EXCEPT ![i].st = "running"]
  /\ UNCHANGED <<kvars, avars, xvars, envvars, pc, params, loopvars, warnings, aggvars, response, histvars>>

\* the detail response arrives and the task finishes
WorkerRun(i) ==
  /\ futures[i].st = "running"
  /\ LET r == FetchDetail(ups.movs, futures[i].mid, params.product_filter, warnings)
     IN  /\ warnings' = r.warnings
         /\ futures' = [futures EXCEPT ![i].st = "done", ![i].raised = r.raised,
                                       ![i].result = r.result]
         /\ detail_sent' =
              [detail_sent EXCEPT ![futures[i].mid] =
                 @ + GetMovementDetail(ups.movs, futures[i].mid).sent]
  /\ UNCHANGED <<kvars, avars, xvars, envvars, pc, params, loopvars, aggvars, response, aggregated, windows, list_log, area_calls>>

\* one iteration of "for fut in as_completed(futures)"
Collect(i) ==
  /\ pc = "as_completed"
  /\ futures[i].st = "done"
  /\ ~futures[i].yielded
  /\ futures' = [futures EXCEPT ![i].yielded = TRUE]
  /\ IF futures[i].raised
     THEN \* fut.result() re-raises what left the task
          /\ pc' = "unwind"
          /\ response' = Error(500, "Exception", "detail")
          /\ UNCHANGED <<aggvars, aggregated>>
     ELSE IF IsNone(futures[i].result)
     THEN UNCHANGED <<pc, response, aggvars, aggregated>>
     ELSE LET kpi == futures[i].result[1]
          IN  /\ total_usado' = total_usado + kpi.padre.usado
              /\ total_manuf' = total_manuf + kpi.manufacturados_total
              /\ total_merma' = total_merma + kpi.merma_total
              /\ IF kpi.createdAt = 0
                 THEN \* _bucket_key("T00:00:00") raises ValueError
                      /\ pc' = "unwind"
                      /\ response' = Error(500, "ValueError", "bucket")
                      /\ UNCHANGED <<series_aggr, prod_aggr, movimientos_kpi, aggregated>>
                 ELSE /\ series_aggr' =
                           AddToSeries(series_aggr,
                                       BucketKey(kpi.createdAt, params.granularidad), kpi)
                      /\ prod_aggr' = AddProducts(prod_aggr, kpi.manuf_by_product, kpi)
                      /\ movimientos_kpi' =
                           IF params.incluir_movs
                           THEN Some(Append(movimientos_kpi[1], MovimientoRow(kpi)))
                           ELSE movimientos_kpi
                      /\ aggregated' = Append(aggregated, kpi.movementId)
                      /\ UNCHANGED <<pc, response>>
  /\ UNCHANGED <<kvars, avars, xvars, envvars, params, loopvars, warnings, windows, list_log,
                 detail_sent, area_calls>>

\* variant: the pool is left after the first future
AnyYielded(fs) == \E i \in 1..Len(fs) : fs[i].yielded

\* as_completed has yielded every future
AllYielded(fs) == \A i \in 1..Len(fs) : fs[i].yielded

AllDone(fs) == \A i \in 1..Len(fs) : fs[i].st = "done"

\* the pool is left after the last future; "cur = chunk_end + one_day"
PoolExit ==
  /\ pc = "as_completed"
  /\ AllYielded(futures)
  /\ futures' = <<>>
  /\ cur' = chunk_end + 1
  /\ pc' = "while"
  /\ UNCHANGED <<kvars, avars, xvars, envvars, params, chunk_end, page, list_calls, ids_en_chunk,
                 warnings, aggvars, response, histvars>>

\* the pool is left on an exception: it waits for its tasks, then the
\* exception leaves the service
PoolUnwind ==
  /\ pc = "unwind"
  /\ AllDone(futures)
  /\ pc' = "raised"
  /\ UNCHANGED <<kvars, avars, xvars, envvars, params, loopvars, futures, warnings, aggvars, response,
                 histvars>>

Envelope ==
  [kind |-> "result",
   periodo |-> [desde |-> params.fecha_inicio, hasta |-> params.fecha_fin,
                granularidad |-> params.granularidad],
   area |-> [id |-> params.area_id, nombre |-> params.area_name],
   filtros |-> [product_ids |-> params.product_filter],
   resumen |-> Resumen(total_usado, total_manuf, total_merma),
   series |-> Series(series_aggr),
   por_producto |-> PorProducto(prod_aggr),
   movimientos |-> IF params.incluir_movs THEN movimientos_kpi[1] ELSE <<>>,
   warnings |-> warnings]

\* the loop is over: the aggregates are closed and the result is returned
Close ==
  /\ pc = "while"
  /\ cur > params.ff_dt
  /\ response' = Envelope
  /\ pc' = "returned"
  /\ UNCHANGED <<kvars, avars, xvars, envvars, params, loopvars, futures, warnings, aggvars, histvars>>

\* ------------------------------------------------------------------------
\* rendimiento_descomposicion_post: the route around the service
\* ------------------------------------------------------------------------
\* payload.model_dump(by_alias=True): the fields of RendimientoDescomposicionBody
ModelDump(b) ==
  [b EXCEPT !.chunk_days = 0, !.max_concurrency = 0, !.modo_agregado = FALSE,
            !.modo_asistente = FALSE]

\* the bodies RendimientoDescomposicionBody validates
SchemaAccepts(b) ==
  /\ b.granularidad \in {"", "DIA", "SEMANA", "MES"}
  /\ 0 \notin Range(b.product_ids)

\* the request came through the route: the service got what model_dump gives
ViaRoute == SchemaAccepts(body) /\ body = ModelDump(body)

\* the fields RendimientoDescomposicionResponse requires
ResponseFields ==
  {"periodo", "area", "filtros", "resumen", "series", "por_producto", "movimientos",
   "warnings"}

\* RendimientoDescomposicionResponse(**result) validates
ResponseValidates(result) == ResponseFields \subseteq DOMAIN result

\* the route after the service: the result goes through the response model,
\* an exception is logged and raised again
RouteRespond ==
  /\ pc \in {"returned", "raised"}
  /\ http = NoHttp
  /\ ViaRoute
  /\ http' = IF pc = "raised"
             THEN [kind |-> "error", status |-> response.status, exc |-> response.exc]
             ELSE IF ResponseValidates(response)
             THEN [kind |-> "ok", status |-> 200, payload |-> response]
             ELSE [kind |-> "error", status |-> 500, exc |-> "ValidationError"]
  /\ UNCHANGED <<kvars, avars, tvars, cbvars, authvars, cachevars, envvars, svars>>

Next ==
  \/ CheckSession
  \/ ResolveArea
  \/ ParseInputs
  \/ WindowOpen
  \/ ListPage
  \/ Submit
  \/ SkipEmptyWindow
  \/ \E i \in 1..Len(futures) : WorkerStart(i)
  \/ \E i \in 1..Len(futures) : WorkerRun(i)
  \/ \E i \in 1..Len(futures) : Collect(i)
  \/ PoolExit
  \/ PoolUnwind
  \/ Close
  \/ RouteRespond

Spec == Init /\ [][Next]_vars

\* The same pipeline on fewer inputs, with a request thread that does not
\* stop in the middle of a listing: while it can request a page, it does.
LiveTemplates == {t \in Templates : t.day = D1 /\ t.answers \in {<<200>>, <<404>>}}

LiveDatasets ==
  {[i \in 1..Len(ts) |-> Movement(MovId(i), ts[i])] : ts \in SeqsUpTo(LiveTemplates, MaxMov)}

LiveInit ==
  /\ Init
  /\ body \in {DefaultBody, [DefaultBody EXCEPT !.chunk_days = 1]}
  /\ ups.movs \in LiveDatasets

SpecLive == LiveInit /\ [][Next]_vars /\ WF_vars(ListPage)

\* ------------------------------------------------------------------------
\* find_area_candidates on its own: every list of up to MaxAreas areas with
\* names out of a set of spellings, every query out of the same set
\* ------------------------------------------------------------------------
\* spellings of "a", "ab", "a b", "b" and "ba", an empty and a blank name
Spellings ==
  { <<>>, <<" ">>, <<"a">>, <<"A">>, <<"á">>, <<" ", "a">>, <<"a", "b">>, <<"A", "B">>,
    <<"a", " ", "b">>, <<"á", "\t", " ", "B">>, <<"b">>, <<"b", "a">> }

AreaId(i) == 20 + i

AreaLists ==
  {[i \in 1..Len(ns) |-> [id |-> AreaId(i), name |-> ns[i]]] : ns \in SeqsUpTo(Spellings, MaxAreas)}

AInit ==
  /\ a_pc = "call"
  /\ a_query \in Spellings
  /\ a_areas \in AreaLists
  /\ a_out = [match |-> None, candidates |-> <<>>]
  /\ k_pc = "idle"
  /\ k_detail = <<>>
  /\ k_filter = <<>>
  /\ k_warn0 = <<>>
  /\ k_out = <<>>
  /\ body = DefaultBody
  /\ ups = [movs |-> <<>>, list_fail |-> NoListFailure, endless |-> FALSE, areas |-> <<>>]
  /\ user_context = Sessions
  /\ pc = "idle"
  /\ ServiceLocalsInit
  /\ http = NoHttp
  /\ TIdle
  /\ CbIdle
  /\ AuthIdle
  /\ CacheIdle

AFind ==
  /\ a_pc = "call"
  /\ a_out' = FindAreaCandidates(a_query, a_areas)
  /\ a_pc' = "returned"
  /\ UNCHANGED <<a_query, a_areas, kvars, xvars, envvars, svars>>

ANext == AFind

SpecArea == AInit /\ [][ANext]_vars

\* ------------------------------------------------------------------------
\* Classifier on its own: every detail payload within the bounds
\* ------------------------------------------------------------------------
Measures == {"kg", "lb", ""}

ManufChilds ==
  [operation : {"ENTRY"}, category : {"DESCOMPOSITION"}, ptype : {"MANUFACTURED"},
   pid : {0, 1, 2}, pname : {"A"}, pmeasure : Measures, quantity : {0, 8}]

OtherChilds ==
  {ch \in [operation : {"ENTRY", "OUT"}, category : {"DESCOMPOSITION", "WASTE"},
           ptype : {"MANUFACTURED", "WASTE", "STOCK"},
           pid : {2}, pname : {"W"}, pmeasure : {"kg"}, quantity : {1}] :
     ~IsManufChild(ch)}

Childs == ManufChilds \cup OtherChilds

KDetails ==
  [id : {5}, quantity : {0, 10, -10}, pmeasure : {"kg", ""}, pname : {"P"}, ppid : {9},
   createdAt : {19999}, childs : SeqsUpTo(Childs, MaxChilds)]

KInit ==
  /\ k_pc = "call"
  /\ k_detail \in KDetails
  /\ k_filter \in {<<>>, <<1>>}
  /\ k_warn0 \in {<<>>, <<[kind |-> "error", mid |-> 4]>>}
  /\ k_out = [raised |-> FALSE, kpi |-> <<>>, warnings |-> <<>>]
  /\ a_pc = "idle"
  /\ a_query = <<>>
  /\ a_areas = <<>>
  /\ a_out = <<>>
  /\ body = DefaultBody
  /\ ups = [movs |-> <<>>, list_fail |-> NoListFailure, endless |-> FALSE, areas |-> <<>>]
  /\ user_context = Sessions
  /\ pc = "idle"
  /\ ServiceLocalsInit
  /\ http = NoHttp
  /\ TIdle
  /\ CbIdle
  /\ AuthIdle
  /\ CacheIdle

KCompute ==
  /\ k_pc = "call"
  /\ k_out' = ComputeKpis(k_detail, k_filter, k_warn0)
  /\ k_pc' = "returned"
  /\ UNCHANGED <<k_detail, k_filter, k_warn0, avars, xvars, envvars, svars>>

KNext == KCompute

SpecKpi == KInit /\ [][KNext]_vars

\* ------------------------------------------------------------------------
\* teco_request on its own: every script of upstream answers within the
\* bounds, every retries argument up to the default
\* ------------------------------------------------------------------------
KIdle ==
  /\ k_pc = "idle"
  /\ k_detail = <<>>
  /\ k_filter = <<>>
  /\ k_warn0 = <<>>
  /\ k_out = <<>>

AIdle ==
  /\ a_pc = "idle"
  /\ a_query = <<>>
  /\ a_areas = <<>>
  /\ a_out = <<>>

PipelineIdle ==
  /\ body = DefaultBody
  /\ ups = [movs |-> <<>>, list_fail |-> NoListFailure, endless |-> FALSE, areas |-> <<>>]
  /\ user_context = Sessions
  /\ pc = "idle"
  /\ ServiceLocalsInit
  /\ http = NoHttp

\* what upstream answers to one HTTP request: a status, or 0 when the
\* transport raises
TecoAnswers == {0, 200, 404, 429, 500, 502, 503, 504}

TInit ==
  /\ t_pc = "send"
  /\ t_answers \in SeqsUpTo(TecoAnswers, MaxAnswers) \ {<<>>}
  /\ t_retries \in 0..Retries
  /\ t_attempt = 0
  /\ t_log = <<>>
  /\ t_out = <<>>
  /\ KIdle
  /\ AIdle
  /\ PipelineIdle
  /\ CbIdle
  /\ AuthIdle
  /\ CacheIdle

\* one iteration of "while True": one HTTP request and what follows it
TSend ==
  /\ t_pc = "send"
  /\ LET a == t_answers[Min2(t_attempt + 1, Len(t_answers))]
     IN  /\ t_log' = Append(t_log, a)
         /\ IF a = 0
            THEN /\ t_pc' = "raised"
                 /\ t_out' = [raised |-> TRUE, exc |-> TransportHandlerRaises, status |-> 0,
                              sent |-> Len(t_log')]
                 /\ UNCHANGED t_attempt
            ELSE IF a \in RETRY_STATUS /\ t_attempt < t_retries
            THEN /\ t_attempt' = t_attempt + 1
                 /\ UNCHANGED <<t_pc, t_out>>
            ELSE /\ t_pc' = "returned"
                 /\ t_out' = [raised |-> FALSE, exc |-> "", status |-> a, sent |-> Len(t_log')]
                 /\ UNCHANGED t_attempt
  /\ UNCHANGED <<t_answers, t_retries, kvars, avars, http, cbvars, authvars, cachevars, envvars, svars>>

TNext == TSend

SpecTeco == TInit /\ [][TNext]_vars

\* ------------------------------------------------------------------------
\* CircuitBreaker : its three methods called in any order for two hosts,
\* HTTPClient._request around them, and the clock
\* ------------------------------------------------------------------------
Hosts == {"h1", "h2"}

\* CircuitBreaker(failure_threshold=5, ...)
DefaultFailureThreshold == 5

\* __init__: a dict without a key is a function that gives 0 (_failures) or
\* None (_tripped_until) for it
NewBreaker(failure_threshold, reset_timeout) ==
  [failure_threshold |-> failure_threshold, reset_timeout |-> reset_timeout,
   failures |-> [h \in Hosts |-> 0], tripped_until |-> [h \in Hosts |-> None]]

\* variant: the breaker trips one failure late
TripsLate(n, failure_threshold) == n > failure_threshold

\* "if self._failures[host] >= self.failure_threshold"
Trips(n, failure_threshold) == n >= failure_threshold

\* record_failure
RecordFailure(b, host, now) ==
  LET n == b.failures[host] + 1
  IN  [b EXCEPT !.failures[host] = n,
                !.tripped_until[host] =
                   IF Trips(n, b.failure_threshold) THEN Some(now + b.reset_timeout) ELSE @]

\* record_success
RecordSuccess(b, host) ==
  [b EXCEPT !.failures[host] = 0, !.tripped_until[host] = None]

\* can_request: the value returned and the breaker after the call
CanRequest(b, host, now) ==
  LET until == b.tripped_until[host]
  IN  IF IsNone(until) THEN [value |-> TRUE, breaker |-> b]
      ELSE IF now >= until[1]
      THEN [value |-> TRUE,
            breaker |-> [b EXCEPT !.tripped_until[host] = None, !.failures[host] = 0]]
      ELSE [value |-> FALSE, breaker |-> b]

\* The history of a host, kept beside the breaker: "streak" counts the
\* failures recorded since the last success, "run" those recorded since
\* the last success or the last can_request that found the cooldown of a
\* tripped host over, "last" is the time of the last failure recorded.
NoHistory == [h \in Hosts |-> [streak |-> 0, run |-> 0, last |-> 0]]

HistFailure(hist, host, now) ==
  [hist EXCEPT ![host] = [streak |-> @.streak + 1, run |-> @.run + 1, last |-> now]]

HistSuccess(hist, host) == [hist EXCEPT ![host] = [streak |-> 0, run |-> 0, last |-> @.last]]

HistCanRequest(hist, host, now, failure_threshold, reset_timeout) ==
  IF /\ hist[host].run >= failure_threshold
     /\ now - hist[host].last >= reset_timeout
  THEN [hist EXCEPT ![host].run = 0]
  ELSE hist

\* what a call leaves in cb_ret: the call, its host, the value returned and
\* the history of the host just before the call
Ret(op, host, value) ==
  [op |-> op, host |-> host, value |-> value, streak |-> cb_hist[host].streak,
   run |-> cb_hist[host].run, elapsed |-> cb_now - cb_hist[host].last]

CbInit ==
  /\ cb \in {NewBreaker(ft, rt) : ft \in 1..MaxThreshold, rt \in 1..MaxTimeout}
             \cup {NewBreaker(DefaultFailureThreshold, 1)}
  /\ cb_now = 0
  /\ cb_ret = [op |-> "init"]
  /\ cb_hist = NoHistory
  /\ KIdle
  /\ AIdle
  /\ PipelineIdle
  /\ TIdle
  /\ AuthIdle
  /\ CacheIdle

\* the failures of a host the model follows: two more than trip the breaker
CanFail(host) == cb_hist[host].streak < cb.failure_threshold + MaxExtraFailures

CbRecordFailure(host) ==
  /\ CanFail(host)
  /\ cb' = RecordFailure(cb, host, cb_now)
  /\ cb_hist' = HistFailure(cb_hist, host, cb_now)
  /\ cb_ret' = Ret("record_failure", host, TRUE)
  /\ UNCHANGED <<cb_now, kvars, avars, http, tvars, authvars, cachevars, envvars, svars>>

CbRecordSuccess(host) ==
  /\ cb' = RecordSuccess(cb, host)
  /\ cb_hist' = HistSuccess(cb_hist, host)
  /\ cb_ret' = Ret("record_success", host, TRUE)
  /\ UNCHANGED <<cb_now, kvars, avars, http, tvars, authvars, cachevars, envvars, svars>>

CbCanRequest(host) ==
  /\ LET r == CanRequest(cb, host, cb_now)
     IN  /\ cb' = r.breaker
         /\ cb_ret' = Ret("can_request", host, r.value)
  /\ cb_hist' = HistCanRequest(cb_hist, host, cb_now, cb.failure_threshold, cb.reset_timeout)
  /\ UNCHANGED <<cb_now, kvars, avars, http, tvars, authvars, cachevars, envvars, svars>>

\* HTTPClient._request: "exc" is a request that raises, the rest are the
\* classes of the status of the response
RequestOutcomes == {"exc", "5xx", "4xx", "ok"}

CbRequest(host, outcome) ==
  /\ outcome \in {"exc", "5xx"} => CanFail(host)
  /\ LET r == CanRequest(cb, host, cb_now)
         h1 == HistCanRequest(cb_hist, host, cb_now, cb.failure_threshold, cb.reset_timeout)
     IN  IF ~r.value
         THEN /\ cb' = r.breaker
              /\ cb_hist' = h1
              /\ cb_ret' = Ret("_request", host, "RuntimeError")
         ELSE IF outcome \in {"exc", "5xx"}
         THEN /\ cb' = RecordFailure(r.breaker, host, cb_now)
              /\ cb_hist' = HistFailure(h1, host, cb_now)
              /\ cb_ret' = Ret("_request", host, outcome)
         ELSE /\ cb' = RecordSuccess(r.breaker, host)
              /\ cb_hist' = HistSuccess(h1, host)
              /\ cb_ret' = Ret("_request", host, outcome)
  /\ UNCHANGED <<cb_now, kvars, avars, http, tvars, authvars, cachevars, envvars, svars>>

\* time passes
CbTick ==
  /\ cb_now < MaxTime
  /\ cb_now' = cb_now + 1
  /\ UNCHANGED <<cb, cb_ret, cb_hist, kvars, avars, http, tvars, authvars, cachevars, envvars, svars>>

CbNext ==
  \/ \E host \in Hosts : CbRecordFailure(host)
  \/ \E host \in Hosts : CbRecordSuccess(host)
  \/ \E host \in Hosts : CbCanRequest(host)
  \/ \E host \in Hosts, outcome \in RequestOutcomes : CbRequest(host, outcome)
  \/ CbTick

SpecBreaker == CbInit /\ [][CbNext]_vars

\* ------------------------------------------------------------------------
\* Login (login_user of the service, login_tecopos of the route) and the
\* session check of the pipeline after it
\* ------------------------------------------------------------------------
\* user names sent to login and to the pipeline: "ana", " Ana", "bob"
LoginNames == {Ana, <<" ", "A", "n", "a">>, Bob}

\* core.auth.get_base_url knows "api1" and raises for "zz"
LoginDatas == [usuario : LoginNames, password : {"p"}, region : {"api1", "zz"}]

\* a branch of my-branches; "" and 0 stand for a missing "name" and "id"
Branch1 == [name |-> "n1", id |-> 5]

BranchNoId == [name |-> "n2", id |-> 0]

\* What upstream answers to the three calls of a login: for each call
\* "exc" (the request raises) or a status, and the token, the businessId
\* ("" and 0 when missing) and the branches of the bodies.  A call that
\* follows one that failed is not made; its answer is written as "exc" and
\* an empty body.
LoginAnswers ==
  {a \in [login : {"exc", "401", "200"}, token : {"", "t2"},
          info : {"exc", "500", "200"}, businessId : {0, 2},
          branches : {"exc", "500", "200"}, list : {<<>>, <<Branch1, BranchNoId>>}] :
     /\ a.login # "200" => a.token = "" /\ a.info = "exc"
     /\ a.info # "200" => a.businessId = 0 /\ a.branches = "exc"
     /\ a.branches # "200" => a.list = <<>>}

\* user_context[username] = ctx
DictSet(store, key, value) ==
  [k \in DOMAIN store \cup {key} |-> IF k = key THEN value ELSE store[k]]

\* {b["name"]: b["id"] for b in branches if "name" in b and "id" in b}
Negocios(branches) ==
  LET kept == SelectSeq(branches, LAMBDA b : b.name # "" /\ b.id # 0)
  IN  [i \in 1..Len(kept) |-> [k |-> kept[i].name, v |-> kept[i].id]]

\* the context a login stores; negocios is None when there are no branches
Context(token, businessId, region, branches) ==
  [token |-> token, businessId |-> businessId, region |-> region,
   negocios |-> IF branches = <<>> THEN None ELSE Some(Negocios(branches))]

LoginFails(status, exc, at, store) ==
  [raised |-> TRUE, status |-> status, exc |-> exc, at |-> at, store |-> store]

LoginReturns(store) ==
  [raised |-> FALSE, status |-> 200, exc |-> "", at |-> "", store |-> store]

\* data.usuario.strip().lower()
Username(usuario) == LowerStr(Strip(usuario))

\* variant: the context is stored before the branches are asked for
LoginUserEarly(store, data, ans) ==
  LET username == Username(data.usuario)
      written == DictSet(store, username, Context(ans.token, ans.businessId, data.region, <<>>))
  IN  IF data.region # "api1" THEN LoginFails(400, "HTTPException", "region", store)
      ELSE IF ans.login = "exc" THEN LoginFails(0, "TransportException", "login", store)
      ELSE IF ans.login # "200" THEN LoginFails(401, "HTTPException", "login", store)
      ELSE IF ans.token = "" THEN LoginFails(500, "HTTPException", "token", store)
      ELSE IF ans.info = "exc" THEN LoginFails(0, "TransportException", "userinfo", store)
      ELSE IF ans.info # "200" THEN LoginFails(500, "HTTPException", "userinfo", store)
      ELSE IF ans.businessId = 0 THEN LoginFails(500, "HTTPException", "businessId", store)
      ELSE IF ans.branches = "exc" THEN LoginFails(0, "TransportException", "branches", written)
      ELSE IF ans.branches # "200" THEN LoginFails(500, "HTTPException", "branches", written)
      ELSE LoginReturns(DictSet(store, username,
                                Context(ans.token, ans.businessId, data.region, ans.list)))

\* login_user: the store of app.core.context after the call and how the
\* call ended
LoginUser(store, data, ans) ==
  LET username == Username(data.usuario)
  IN  IF data.region # "api1" THEN LoginFails(400, "HTTPException", "region", store)
      ELSE IF ans.login = "exc" THEN LoginFails(0, "TransportException", "login", store)
      ELSE IF ans.login # "200" THEN LoginFails(401, "HTTPException", "login", store)
      ELSE IF ans.token = "" THEN LoginFails(500, "HTTPException", "token", store)
      ELSE IF ans.info = "exc" THEN LoginFails(0, "TransportException", "userinfo", store)
      ELSE IF ans.info # "200" THEN LoginFails(500, "HTTPException", "userinfo", store)
      ELSE IF ans.businessId = 0 THEN LoginFails(500, "HTTPException", "businessId", store)
      ELSE IF ans.branches = "exc" THEN LoginFails(0, "TransportException", "branches", store)
      ELSE IF ans.branches # "200" THEN LoginFails(500, "HTTPException", "branches", store)
      ELSE LoginReturns(DictSet(store, username,
                                Context(ans.token, ans.businessId, data.region, ans.list)))

\* login_tecopos: the dict of app.utils after the call and how the call
\* ended; get_base_url of app.utils knows every region, the token and the
\* businessId are looked at together after the user-info call, the context
\* is stored before the branches are asked for
LoginTecopos(store, data, ans) ==
  LET usuario == Username(data.usuario)
      written == DictSet(store, usuario, Context(ans.token, ans.businessId, data.region, <<>>))
  IN  IF ans.login = "exc" THEN LoginFails(0, "TransportException", "login", store)
      ELSE IF ans.login # "200" THEN LoginFails(401, "HTTPException", "login", store)
      ELSE IF ans.info = "exc" THEN LoginFails(0, "TransportException", "userinfo", store)
      ELSE IF ans.info # "200" THEN LoginFails(500, "HTTPException", "userinfo", store)
      ELSE IF ans.token = "" \/ ans.businessId = 0
      THEN LoginFails(500, "HTTPException", "businessId", store)
      ELSE IF ans.branches = "exc" THEN LoginFails(0, "TransportException", "branches", written)
      ELSE IF ans.branches # "200" THEN LoginFails(500, "HTTPException", "branches", written)
      ELSE LoginReturns(DictSet(store, usuario,
                                Context(ans.token, ans.businessId, data.region, ans.list)))

\* a session of "ana" stored by an earlier login
EarlierSessions == [u \in {Ana} |-> Context("t1", 1, "api1", <<>>)]

NoLogin ==
  [via |-> "none", usuario |-> <<>>, raised |-> FALSE, status |-> 0, at |-> "",
   before |-> <<>>, n |-> 0]

AuthInit ==
  /\ user_context \in {<<>>, EarlierSessions}
  /\ utils_user_context = <<>>
  /\ login = NoLogin
  /\ logged_in = {}
  /\ body = DefaultBody
  /\ ups = [movs |-> <<>>, list_fail |-> NoListFailure, endless |-> FALSE, areas |-> <<>>]
  /\ pc = "idle"
  /\ ServiceLocalsInit
  /\ http = NoHttp
  /\ KIdle
  /\ AIdle
  /\ TIdle
  /\ CbIdle
  /\ CacheIdle

\* what a login call leaves in login and logged_in
LoginDone(via, data, r, before) ==
  /\ login.n < MaxLogins
  /\ login' = [via |-> via, usuario |-> data.usuario, raised |-> r.raised,
               status |-> r.status, at |-> r.at, before |-> before, n |-> login.n + 1]
  /\ logged_in' = IF r.raised THEN logged_in ELSE logged_in \cup {data.usuario}

AuthLoginUser(data, ans) ==
  /\ LET r == LoginUser(user_context, data, ans)
     IN  /\ user_context' = r.store
         /\ LoginDone("login_user", data, r, user_context)
  /\ UNCHANGED <<utils_user_context, body, ups, kvars, avars, http, tvars, cbvars,
                 cachevars, svars>>

AuthLoginTecopos(data, ans) ==
  /\ LET r == LoginTecopos(utils_user_context, data, ans)
     IN  /\ utils_user_context' = r.store
         /\ LoginDone("login_tecopos", data, r, utils_user_context)
  /\ UNCHANGED <<envvars, kvars, avars, http, tvars, cbvars, cachevars, svars>>

\* a request for the pipeline arrives with this "usuario"
AuthCall(usuario) ==
  /\ pc # "entry"
  /\ body' = [DefaultBody EXCEPT !.usuario = usuario]
  /\ pc' = "entry"
  /\ response' = NoResponse
  /\ UNCHANGED <<ups, user_context, kvars, avars, xvars, params, loopvars, futures,
                 warnings, aggvars, histvars>>

AuthNext ==
  \/ \E data \in LoginDatas, ans \in LoginAnswers : AuthLoginUser(data, ans)
  \/ \E data \in LoginDatas, ans \in LoginAnswers : AuthLoginTecopos(data, ans)
  \/ \E usuario \in LoginNames \cup {<<>>} : AuthCall(usuario)
  \/ CheckSession

SpecAuth == AuthInit /\ [][AuthNext]_vars

\* ------------------------------------------------------------------------
\* TTLCache : set, get and clear called in any order for two keys, and the
\* clock
\* ------------------------------------------------------------------------
CacheKeys == {"k1", "k2"}

CacheValues == {"v1", "v2"}

\* _store: a key it does not hold maps to None, a key it holds to the
\* tuple (expires_at, value)
EmptyStore == [k \in CacheKeys |-> None]

\* variant: an entry lives through the second it expires in
ExpiredLate(now, expires_at) == now > expires_at

\* "if time.time() >= expires_at"
Expired(now, expires_at) == now >= expires_at

\* set
CacheSetTo(store, key, value, ttl, now) == [store EXCEPT ![key] = Some(<<now + ttl, value>>)]

\* get: the value returned (None as <<>>) and the store after the call
CacheGetFrom(store, key, now) ==
  LET entry == store[key]
  IN  IF IsNone(entry) THEN [value |-> None, store |-> store]
      ELSE IF Expired(now, entry[1][1])
      THEN [value |-> None, store |-> [store EXCEPT ![key] = None]]
      ELSE [value |-> Some(entry[1][2]), store |-> store]

\* The last set of each key since the last clear: None, or the time of the
\* set, its value and its ttl.
NoSets == [k \in CacheKeys |-> None]

CacheInit ==
  /\ cache_store = EmptyStore
  /\ cache_now = 0
  /\ cache_ret = [op |-> "init", key |-> "", value |-> None, before |-> EmptyStore, at |-> 0]
  /\ cache_hist = NoSets
  /\ KIdle
  /\ AIdle
  /\ PipelineIdle
  /\ TIdle
  /\ CbIdle
  /\ AuthIdle

CacheSet(key, value, ttl) ==
  /\ cache_store' = CacheSetTo(cache_store, key, value, ttl, cache_now)
  /\ cache_hist' = [cache_hist EXCEPT ![key] = Some([at |-> cache_now, value |-> value, ttl |-> ttl])]
  /\ cache_ret' = [op |-> "set", key |-> key, value |-> None, before |-> cache_store,
                  at |-> cache_now]
  /\ UNCHANGED <<cache_now, kvars, avars, http, tvars, cbvars, authvars, envvars, svars>>

CacheGet(key) ==
  /\ LET r == CacheGetFrom(cache_store, key, cache_now)
     IN  /\ cache_store' = r.store
         /\ cache_ret' = [op |-> "get", key |-> key, value |-> r.value, before |-> cache_store,
                          at |-> cache_now]
  /\ UNCHANGED <<cache_now, cache_hist, kvars, avars, http, tvars, cbvars, authvars, envvars, svars>>

CacheClear ==
  /\ cache_store' = EmptyStore
  /\ cache_hist' = NoSets
  /\ cache_ret' = [op |-> "clear", key |-> "", value |-> None, before |-> cache_store,
                  at |-> cache_now]
  /\ UNCHANGED <<cache_now, kvars, avars, http, tvars, cbvars, authvars, envvars, svars>>

\* time passes
CacheTick ==
  /\ cache_now < MaxCacheTime
  /\ cache_now' = cache_now + 1
  /\ UNCHANGED <<cache_store, cache_ret, cache_hist, kvars, avars, http, tvars, cbvars,
                 authvars, envvars, svars>>

CacheNext ==
  \/ \E key \in CacheKeys, value \in CacheValues, ttl \in 0..MaxTtl : CacheSet(key, value, ttl)
  \/ \E key \in CacheKeys : CacheGet(key)
  \/ CacheClear
  \/ CacheTick

SpecCache == CacheInit /\ [][CacheNext]_vars

\* ------------------------------------------------------------------------
\* Properties of the pipeline (checked under Spec)
\* ------------------------------------------------------------------------
ReturnedResult == pc = "returned" /\ response.kind = "result"

\* the movements upstream lists in the windows of the request
Listed == SelectSeq(ups.movs, LAMBDA m : params.fi_dt <= m.day /\ m.day <= params.ff_dt)

KpiOf(m) == ComputeKpis(m.detail, params.product_filter, <<>>)

\* how the detail call of m ends: "ok", "http" or "exc"
FetchOf(m) ==
  LET g == GetMovementDetail(<<m>>, m.detail.id)
  IN  IF g.raised THEN g.exc ELSE "ok"

\* the detail call or the classification of m fails
Fails(m) == FetchOf(m) # "ok" \/ KpiOf(m).raised

Good == SelectSeq(Listed, LAMBDA m : ~Fails(m))

GoodKpis == [i \in 1..Len(Good) |-> KpiOf(Good[i]).kpi]

Count(seq, P(_)) == Cardinality({i \in 1..Len(seq) : P(seq[i])})

ErrorWarningsOf(ws, id) == Count(ws, LAMBDA w : w.kind = "error" /\ w.mid = id)

UnitWarningsOf(ws, id) == Count(ws, LAMBDA w : w.kind = "unidades" /\ w.mid = id)

WarningsOf(ws, id) == Count(ws, LAMBDA w : w.mid = id)

TimesAggregated(id) == Count(aggregated, LAMBDA a : a = id)

ExpUsado == SumSeq([i \in 1..Len(GoodKpis) |-> GoodKpis[i].padre.usado])

ExpManuf == SumSeq([i \in 1..Len(GoodKpis) |-> GoodKpis[i].manufacturados_total])

ExpMerma == SumSeq([i \in 1..Len(GoodKpis) |-> GoodKpis[i].merma_total])

KeyOf(kpi) == BucketKey(kpi.createdAt, params.granularidad)

InBucket(b) == SelectSeq(GoodKpis, LAMBDA kpi : KeyOf(kpi) = b)

ExpBuckets == {KeyOf(GoodKpis[i]) : i \in 1..Len(GoodKpis)}

\* the series a run that aggregates the good movements in listing order gives
RECURSIVE RefSeriesAggr(_)
RefSeriesAggr(kpis) ==
  IF kpis = <<>> THEN <<>>
  ELSE LET k == kpis[Len(kpis)]
       IN  AddToSeries(RefSeriesAggr(SubSeq(kpis, 1, Len(kpis) - 1)), KeyOf(k), k)

RECURSIVE RefProdAggr(_)
RefProdAggr(kpis) ==
  IF kpis = <<>> THEN <<>>
  ELSE LET k == kpis[Len(kpis)]
       IN  AddProducts(RefProdAggr(SubSeq(kpis, 1, Len(kpis) - 1)), k.manuf_by_product, k)

RefRows == Range(PorProducto(RefProdAggr(GoodKpis)))

\* a por_producto row without the two descriptive fields
Figures(row) ==
  [productId |-> row.productId, movimientos |-> row.movimientos,
   usado_padre |-> row.usado_padre, manufacturados |-> row.manufacturados,
   merma |-> row.merma, rendimiento_promedio |-> row.rendimiento_promedio,
   rendimiento_min |-> row.rendimiento_min, rendimiento_max |-> row.rendimiento_max,
   rendimiento_stddev |-> row.rendimiento_stddev]

\* C1: a movement whose detail call or classification fails gets exactly one
\* warning, which names it, and is in none of resumen, series, por_producto
\* and movimientos; the failure does not end the request, whose result holds
\* every other movement.
C1_FailedDetailIsSkipped ==
  /\ pc \in {"unwind", "raised"} => response.at # "detail"
  /\ ReturnedResult =>
       /\ \A i \in 1..Len(Listed) :
            Fails(Listed[i]) =>
              /\ WarningsOf(response.warnings, Listed[i].detail.id) = 1
              /\ ErrorWarningsOf(response.warnings, Listed[i].detail.id) = 1
              /\ TimesAggregated(Listed[i].detail.id) = 0
              /\ \A j \in 1..Len(response.movimientos) :
                   response.movimientos[j].movementId # Listed[i].detail.id
       /\ \A i \in 1..Len(Good) : TimesAggregated(Good[i].detail.id) = 1
       /\ response.resumen.padre_usado = ExpUsado
       /\ response.resumen.manufacturados = ExpManuf
       /\ response.resumen.merma = ExpMerma
       /\ response.series = Series(RefSeriesAggr(GoodKpis))
       /\ {Figures(response.por_producto[j]) : j \in 1..Len(response.por_producto)}
            = {Figures(r) : r \in RefRows}
       /\ params.incluir_movs =>
            /\ Len(response.movimientos) = Len(Good)
            /\ {response.movimientos[j] : j \in 1..Len(response.movimientos)}
                 = {MovimientoRow(GoodKpis[j]) : j \in 1..Len(GoodKpis)}

\* a result with a failed movement and an aggregated one
C1_Witness ==
  /\ ReturnedResult
  /\ \E i \in 1..Len(Listed) : FetchOf(Listed[i]) = "http"
  /\ Len(Good) >= 1
  /\ response.resumen.padre_usado > 0
  /\ Len(response.movimientos) = 1

\* C2: when the pipeline returns, every listed movement has either been
\* added exactly once to the totals, to one bucket and to each product of its
\* breakdown, or has exactly one fetch-error warning, never both; every
\* warning a worker appended is in the list once.
C2_AccumulationSynchronized ==
  ReturnedResult =>
    /\ \A i \in 1..Len(Listed) :
         LET id == Listed[i].detail.id
         IN  /\ TimesAggregated(id) + ErrorWarningsOf(response.warnings, id) = 1
             /\ TimesAggregated(id) = 1 <=> ~Fails(Listed[i])
             /\ UnitWarningsOf(response.warnings, id) =
                  (IF Fails(Listed[i]) THEN 0 ELSE Len(KpiOf(Listed[i]).warnings))
    /\ Len(aggregated) = Len(Good)
    /\ Len(response.warnings) =
         (Len(Listed) - Len(Good))
         + SumSeq([i \in 1..Len(Good) |-> Len(KpiOf(Good[i]).warnings)])
    /\ response.resumen.padre_usado = ExpUsado
    /\ response.resumen.manufacturados = ExpManuf
    /\ response.resumen.merma = ExpMerma
    /\ \A j \in 1..Len(response.series) :
         LET row == response.series[j]
             in  == InBucket(row.bucket)
         IN  /\ row.padre_usado = SumSeq([i \in 1..Len(in) |-> in[i].padre.usado])
             /\ row.manufacturados = SumSeq([i \in 1..Len(in) |-> in[i].manufacturados_total])
             /\ row.merma = SumSeq([i \in 1..Len(in) |-> in[i].merma_total])
    /\ \A j \in 1..Len(response.por_producto) :
         LET row == response.por_producto[j]
             has == SelectSeq(GoodKpis,
                      LAMBDA kpi : row.productId \in DictKeys(kpi.manuf_by_product))
         IN  /\ row.movimientos = Len(has)
             /\ row.manufacturados =
                  SumSeq([i \in 1..Len(has) |->
                            DictGet(has[i].manuf_by_product, row.productId).qty])

\* two tasks ran at once: one was aggregated, the other left its warning,
\* and a unit warning of a third kind of movement is there as well
C2_Witness ==
  /\ ReturnedResult
  /\ params.max_concurrency > 1
  /\ Len(Listed) = 2
  /\ Len(aggregated) = 1
  /\ Len(response.warnings) = 2
  /\ response.warnings[1].kind = "unidades"
  /\ response.warnings[2].kind = "error"

\* C3: resumen and series of a result are those of the run that aggregates
\* the movements in listing order, whatever the order of completion.
C3_ResumenSeriesOrderFree ==
  ReturnedResult =>
    /\ response.resumen = Resumen(ExpUsado, ExpManuf, ExpMerma)
    /\ response.series = Series(RefSeriesAggr(GoodKpis))

\* the tasks completed in the reverse of the listing order, in two buckets
C3_Witness ==
  /\ ReturnedResult
  /\ Len(aggregated) = 2
  /\ aggregated[1] > aggregated[2]
  /\ Len(response.series) = 2

\* C4 as stated: the set of por_producto rows, every field included, is the
\* one of the run that aggregates the movements in listing order.
C4_RowsOrderFree ==
  ReturnedResult =>
    {response.por_producto[j] : j \in 1..Len(response.por_producto)} = RefRows

C9_WeightedYield ==
  ReturnedResult =>
    LET r == response.resumen
        y == r.rendimiento_ponderado_porcentaje
    IN  /\ r.padre_usado = total_usado
        /\ r.manufacturados = total_manuf
        /\ r.merma = total_merma
        /\ r.padre_usado > 0 =>
             /\ ~IsNone(y)
             /\ 2 * Abs(y[1] * r.padre_usado - r.manufacturados * 10000) <= r.padre_usado
        /\ r.padre_usado = 0 => IsNone(y)
        /\ Listed = <<>> =>
             r.padre_usado = 0 /\ r.manufacturados = 0 /\ r.merma = 0 /\ IsNone(y)

\* 6 of 9 is 66.67
C9_Witness ==
  /\ ReturnedResult
  /\ response.resumen.padre_usado = 9
  /\ response.resumen.manufacturados = 6
  /\ response.resumen.rendimiento_ponderado_porcentaje = Some(6667)

\* C10: series has one row per bucket key that received a movement, in
\* strictly ascending order of the key strings, and the yield of a row is its
\* manufactured / parent-used x 100 when its parent-used is > 0, else null.
C10_Series ==
  ReturnedResult =>
    LET rows == response.series
    IN  /\ {rows[j].bucket : j \in 1..Len(rows)} = ExpBuckets
        /\ Len(rows) = Cardinality(ExpBuckets)
        /\ \A j \in 1..(Len(rows) - 1) : StrLess(rows[j].bucket, rows[j + 1].bucket)
        /\ \A j \in 1..Len(rows) :
             LET y  == rows[j].rendimiento_porcentaje
                 in == InBucket(rows[j].bucket)
             IN  /\ rows[j].padre_usado = SumSeq([i \in 1..Len(in) |-> in[i].padre.usado])
                 /\ rows[j].manufacturados =
                      SumSeq([i \in 1..Len(in) |-> in[i].manufacturados_total])
                 /\ rows[j].padre_usado > 0 =>
                      /\ ~IsNone(y)
                      /\ 2 * Abs(y[1] * rows[j].padre_usado - rows[j].manufacturados * 10000)
                           <= rows[j].padre_usado
                 /\ rows[j].padre_usado = 0 => IsNone(y)

\* two buckets filled in descending order of their keys, one with a null yield
C10_Witness ==
  /\ ReturnedResult
  /\ Len(response.series) = 2
  /\ Len(series_aggr) = 2
  /\ StrLess(series_aggr[2].k, series_aggr[1].k)
  /\ IsNone(response.series[2].rendimiento_porcentaje)
  /\ ~IsNone(response.series[1].rendimiento_porcentaje)

\* the aggregated movements whose manufactured breakdown holds product p
HasProduct(p) == SelectSeq(GoodKpis, LAMBDA kpi : p \in DictKeys(kpi.manuf_by_product))

\* their yields that are numeric
YieldsOf(p) ==
  LET num == SelectSeq(HasProduct(p), LAMBDA kpi : ~IsNone(kpi.rendimiento_porcentaje))
  IN  [i \in 1..Len(num) |-> num[i].rendimiento_porcentaje[1]]

\* s is sqrt(sum((y - mean)^2) / (n - 1)) to the nearest hundredth
IsSampleStd(s, ys) ==
  LET n  == Len(ys)
      s1 == SumSeq(ys)
      s2 == SumSeq([i \in 1..n |-> ys[i] * ys[i]])
      nn == n * s2 - s1 * s1
      d  == n * (n - 1)
  IN  /\ s >= 0
      /\ (2 * s + 1) * (2 * s + 1) * d >= 4 * nn
      /\ s > 0 => (2 * s - 1) * (2 * s - 1) * d <= 4 * nn

\* C11 as stated: the standard deviation of a row is 0 when the product was
\* in one movement and a number when it was in several.
C11_AsStated ==
  ReturnedResult =>
    \A j \in 1..Len(response.por_producto) :
       LET row == response.por_producto[j]
       IN  /\ row.movimientos = 1 => row.rendimiento_stddev = Some(0)
           /\ row.movimientos > 1 => ~IsNone(row.rendimiento_stddev)

\* C11 (amended): the standard deviation of a row is taken over the numeric
\* yields of the movements counted in movimientos: null when none of them
\* has a numeric yield, 0 when exactly one has, and the n-1 (sample) formula
\* over those yields when several have.
C11_SampleStddev ==
  ReturnedResult =>
    \A j \in 1..Len(response.por_producto) :
       LET row == response.por_producto[j]
           ys  == YieldsOf(row.productId)
           std == row.rendimiento_stddev
       IN  /\ row.movimientos = Len(HasProduct(row.productId))
           /\ Len(ys) = 0 => IsNone(std)
           /\ Len(ys) = 1 => std = Some(0)
           /\ Len(ys) > 1 => ~IsNone(std) /\ IsSampleStd(std[1], ys)

\* yields of 80.0 and 75.0 in two movements of one product: 3.54
C11_Witness ==
  /\ ReturnedResult
  /\ \E j \in 1..Len(response.por_producto) :
        /\ response.por_producto[j].movimientos = 2
        /\ Len(YieldsOf(response.por_producto[j].productId)) = 2
        /\ response.por_producto[j].rendimiento_stddev = Some(354)

\* Read off the payload of movement m: the children counted as manufactured,
\* the children counted as waste, and their quantities.
MovCounted(m) ==
  SelectSeq(m.detail.childs,
    LAMBDA ch : /\ ch.operation = "ENTRY"
                /\ ch.category = "DESCOMPOSITION"
                /\ ch.ptype = "MANUFACTURED"
                /\ (params.product_filter = <<>> \/ ch.pid \in Range(params.product_filter)))

MovWaste(m) ==
  SelectSeq(m.detail.childs,
    LAMBDA ch : ch.operation = "ENTRY" /\ (ch.ptype = "WASTE" \/ ch.category = "WASTE"))

MovProducts(m) == {MovCounted(m)[i].pid : i \in 1..Len(MovCounted(m))}

QtyOf(childs) == SumSeq([i \in 1..Len(childs) |-> childs[i].quantity])

\* the aggregated movements with product p in their manufactured breakdown
MovsWith(p) == SelectSeq(Good, LAMBDA m : p \in MovProducts(m))

\* C12: por_producto has exactly one row for every product id in the
\* manufactured breakdown of an aggregated movement and no other row; the
\* row counts those movements, sums their whole parent quantities and their
\* whole waste totals, and sums the product's own manufactured quantities.
C12_ProductRows ==
  ReturnedResult =>
    LET rows == response.por_producto
    IN  /\ {rows[j].productId : j \in 1..Len(rows)}
             = UNION {MovProducts(Good[i]) : i \in 1..Len(Good)}
        /\ \A j, l \in 1..Len(rows) : rows[j].productId = rows[l].productId => j = l
        /\ \A j \in 1..Len(rows) :
             LET ms == MovsWith(rows[j].productId)
             IN  /\ rows[j].movimientos = Len(ms)
                 /\ rows[j].usado_padre =
                      SumSeq([i \in 1..Len(ms) |-> Abs(ms[i].detail.quantity)])
                 /\ rows[j].merma =
                      SumSeq([i \in 1..Len(ms) |-> QtyOf(MovWaste(ms[i]))])
                 /\ rows[j].manufacturados =
                      SumSeq([i \in 1..Len(ms) |->
                                QtyOf(SelectSeq(MovCounted(ms[i]),
                                                LAMBDA ch : ch.pid = rows[j].productId))])

\* product 1 in two movements (parents 10 and 4, waste 1 and 0, own
\* quantities 8 and 1), product 2 in the second one only
C12_Witness ==
  /\ ReturnedResult
  /\ Len(response.por_producto) = 2
  /\ \E j \in 1..2 :
        /\ response.por_producto[j].productId = 1
        /\ response.por_producto[j].movimientos = 2
        /\ response.por_producto[j].usado_padre = 14
        /\ response.por_producto[j].merma = 1
        /\ response.por_producto[j].manufacturados = 9
  /\ \E j \in 1..2 :
        /\ response.por_producto[j].productId = 2
        /\ response.por_producto[j].usado_padre = 4

\* the inputs are parsed and the window loop has been entered
InLoop == pc \in {"while", "list", "pool", "as_completed", "unwind"} \/ ReturnedResult

WindowDays(w) == w.to - w.from + 1

\* C13: with start <= end and a chunk size c >= 1 (30 when absent) the windows
\* are consecutive and inclusive: the first starts at the start date, each
\* next one starts the day after the previous one ends, none ends after the
\* end date and the last ends on it, each spans at most c days and each but
\* the last exactly c; the window being listed is the last one opened.
C13_Windows ==
  (InLoop /\ params.fi_dt <= params.ff_dt /\ params.chunk_days >= 1) =>
    /\ params.chunk_days = (IF body.chunk_days = 0 THEN 30 ELSE body.chunk_days)
    /\ windows # <<>> => windows[1].from = params.fi_dt
    /\ \A k \in 1..Len(windows) :
         /\ windows[k].from <= windows[k].to
         /\ windows[k].to <= params.ff_dt
         /\ WindowDays(windows[k]) <= params.chunk_days
         /\ k < Len(windows) =>
              /\ windows[k + 1].from = windows[k].to + 1
              /\ WindowDays(windows[k]) = params.chunk_days
    /\ pc \in {"list", "pool", "as_completed"} =>
         windows[Len(windows)] = [from |-> cur, to |-> chunk_end]
    /\ \A j \in 1..Len(list_log) : list_log[j].w \in 1..Len(windows)
    /\ ReturnedResult =>
         /\ windows # <<>>
         /\ windows[Len(windows)].to = params.ff_dt
         /\ \A k \in 1..Len(windows) : \E j \in 1..Len(list_log) : list_log[j].w = k

\* 65 days with the default chunk size: windows of 30, 30 and 5 days
C13_Witness ==
  /\ ReturnedResult
  /\ body.chunk_days = 0
  /\ params.ff_dt - params.fi_dt + 1 = 65
  /\ Len(windows) = 3
  /\ WindowDays(windows[1]) = 30
  /\ WindowDays(windows[2]) = 30
  /\ WindowDays(windows[3]) = 5

\* the ids the list pages of window k yielded
ListedIn(k) ==
  UNION {Range(list_log[j].ids) : j \in {l \in 1..Len(list_log) : list_log[l].w = k}}

\* the windows in which an id was listed
WindowsOfId(id) == {k \in 1..Len(windows) : id \in ListedIn(k)}

\* the detail fetch of a movement is over and its outcome is in the aggregates
\* or in the warnings
Settled(id) ==
  /\ detail_sent[id] >= 1
  /\ TimesAggregated(id) >= 1 \/ ErrorWarningsOf(warnings, id) >= 1

\* the listing of window k has read its last (empty) page
ListingDone(k) ==
  \E j \in 1..Len(list_log) :
     list_log[j].w = k /\ ~list_log[j].failed /\ list_log[j].ids = <<>>

\* a pool thread sends the first detail request of a task
TaskStarts ==
  /\ Len(futures') = Len(futures)
  /\ \E i \in 1..Len(futures) : futures[i].st = "queued" /\ futures'[i].st = "running"

\* the warnings of an earlier window come before those of a later one
WarningsByWindow ==
  \A i, j \in 1..Len(warnings) :
     i < j => \E a \in WindowsOfId(warnings[i].mid), b \in WindowsOfId(warnings[j].mid) : a <= b

C15_BoundedConcurrency ==
  LET limit == IF body.max_concurrency = 0 THEN 8 ELSE body.max_concurrency
  IN  /\ Cardinality(Running(futures)) <= (IF limit > 0 THEN limit ELSE 0)
      /\ futures # <<>> => params.max_concurrency = limit

\* max_concurrency 1 and a window of two ids: one fetch in flight, one waiting
C15_Witness ==
  /\ body.max_concurrency = 1
  /\ Len(futures) = 2
  /\ futures[1].st = "done"
  /\ futures[2].st = "running"
  /\ Cardinality(Running(futures)) = 1

\* the answer of upstream to the j-th HTTP request for the detail of m
AnswerOf(m, j) == m.answers[Min2(j, Len(m.answers))]

\* the HTTP requests one detail call sends: one, and one more after each of
\* the first two answers as long as all answers so far are 429, 502, 503, 504
RequestsExpected(m) ==
  1 + Cardinality({j \in 1..2 : \A l \in 1..j : AnswerOf(m, l) \in {429, 502, 503, 504}})

\* C17 as stated: at most one detail request is sent for a movement.
C17_AsStated ==
  \A id \in DOMAIN detail_sent : detail_sent[id] <= 1

\* C17 (amended): the pipeline calls get_movement_detail at most once for a
\* listed movement and never again after it failed, so a movement has at
\* most one warning and is aggregated at most once; inside that one call
\* teco_request re-sends the request after an answer of 429, 502, 503 or
\* 504, up to 3 requests in all, and sends a single request in every other
\* case, failed or not.
C17_TerminalFailure ==
  \A i \in 1..Len(ups.movs) :
     LET m  == ups.movs[i]
         id == m.detail.id
         n  == detail_sent[id]
     IN  /\ n <= 3
         /\ n \in {0, RequestsExpected(m)}
         /\ AnswerOf(m, 1) \notin {429, 502, 503, 504} => n <= 1
         /\ Count(futures, LAMBDA f : f.mid = id) <= 1
         /\ WarningsOf(warnings, id) <= 1
         /\ TimesAggregated(id) <= 1
         /\ (n > 0 /\ FetchOf(m) # "ok") =>
              /\ TimesAggregated(id) = 0
              /\ ErrorWarningsOf(warnings, id) = 1

\* a detail answered 503 three times and a detail answered 404 once: both
\* have their warning, the first after 3 requests, the second after 1
C17_Witness ==
  /\ ReturnedResult
  /\ \E id \in DOMAIN detail_sent :
        detail_sent[id] = 3 /\ ErrorWarningsOf(response.warnings, id) = 1
  /\ \E id \in DOMAIN detail_sent :
        detail_sent[id] = 1 /\ ErrorWarningsOf(response.warnings, id) = 1

\* no HTTP request has been sent upstream: no page of the area list, no page
\* of the movement list, no movement detail
NoUpstreamCall ==
  /\ area_calls = 0
  /\ list_log = <<>>
  /\ list_calls = 0
  /\ \A id \in DOMAIN detail_sent : detail_sent[id] = 0
  /\ futures = <<>>

\* C18: a request that names no user, or a user without a session, is
\* rejected by the first step of the service with an error (400 or 403),
\* and no upstream call is ever made for it.
C18_SessionRejected ==
  (body.usuario = <<>> \/ body.usuario \notin DOMAIN user_context) =>
    /\ pc \in {"entry", "raised"}
    /\ NoUpstreamCall
    /\ pc = "raised" =>
         /\ response.kind = "error"
         /\ response.at = "session"
         /\ response.status = (IF body.usuario = <<>> THEN 400 ELSE 403)

\* user "bob" has no session: 403, with two movements waiting upstream
C18_Witness ==
  /\ pc = "raised"
  /\ body.usuario = Bob
  /\ response.status = 403
  /\ Len(ups.movs) = 2
  /\ NoUpstreamCall

\* the body carries a date that is not YYYY-MM-DD or a product id that is
\* not an integer
MalformedInput ==
  \/ -1 \in {body.fecha_inicio, body.fecha_fin}
  \/ 0 \in Range(body.product_ids)

\* C19 as stated: a request with a malformed product_ids or an invalid date
\* is rejected with a 4xx error, and no upstream call was made before.
C19_InputRejected ==
  (pc = "raised" /\ response.at = "inputs") =>
    /\ MalformedInput
    /\ response.status \in 400..499
    /\ NoUpstreamCall

\* the request got as far as resolving the area by the name it carries
AreaByName ==
  /\ pc \notin {"idle", "entry", "area"}
  /\ ~(pc = "raised" /\ response.at = "session")
  /\ body.area_id = 0
  /\ body.area_nombre # <<>>

QTarget == Norm(body.area_nombre)

\* the positions of the listed areas the query names exactly
QExact == {i \in 1..Len(ups.areas) : Norm(ups.areas[i].name) = QTarget}

\* the ids of the areas whose normalized name starts with the query
QPrefixIds ==
  {ups.areas[i].id : i \in {j \in 1..Len(ups.areas) :
                               StartsWith(Norm(ups.areas[j].name), QTarget)}}

\* the ids of the areas whose normalized name starts with or contains it
QIds ==
  {ups.areas[i].id : i \in {j \in 1..Len(ups.areas) :
                               \/ StartsWith(Norm(ups.areas[j].name), QTarget)
                               \/ Contains(Norm(ups.areas[j].name), QTarget)}}

AreaResolved(id) ==
  /\ params.area_id = id
  /\ \E i \in 1..Len(ups.areas) :
        ups.areas[i].id = id /\ params.area_name = ups.areas[i].name
  /\ ~(pc = "raised" /\ response.at = "area")
  /\ ~(pc = "returned" /\ response.kind = "ask")

AreaAsked == pc = "returned" /\ response.kind = "ask"

AreaNotFound == pc = "raised" /\ response = Error(400, "HTTPException", "area")

OptionIds == {response.options[j].id : j \in 1..Len(response.options)}

\* options of areas that match, each with its name, no id twice, the prefix
\* matches first
OptionsRanked ==
  LET o == response.options
  IN  /\ \A j \in 1..Len(o) :
            /\ o[j].id \in QIds
            /\ \E i \in 1..Len(ups.areas) :
                  ups.areas[i].id = o[j].id /\ ups.areas[i].name = o[j].label
      /\ \A j, k \in 1..Len(o) : j # k => o[j].id # o[k].id
      /\ \A j, k \in 1..Len(o) : (j < k /\ o[k].id \in QPrefixIds) => o[j].id \in QPrefixIds
      /\ (QPrefixIds \ OptionIds # {}) => OptionIds \subseteq QPrefixIds

Answered == http # NoHttp

\* C22 as stated: when area resolution ends in an ask payload, the route
\* answers with that payload as a normal result.
C22_AskReturned ==
  (AreaAsked /\ Answered) => http = [kind |-> "ok", status |-> 200, payload |-> response]

\* the rows of the movements aggregated, in the order of their aggregation
RowsAggregated ==
  [i \in 1..Len(aggregated) |->
     MovimientoRow(KpiOf(MovementById(ups.movs, aggregated[i])).kpi)]

\* C23 as stated: the rows are in the result only when they were asked for
\* and aggregated-only mode was not; in aggregated-only mode the result has
\* no movimientos field.
C23_AsStated ==
  ReturnedResult =>
    /\ (response.movimientos # <<>>) => (body.incluir_movimientos /\ ~body.modo_agregado)
    /\ body.modo_agregado => "movimientos" \notin DOMAIN response

\* C23: the result always has the movimientos field; it holds the rows of
\* the aggregated movements when they were asked for and aggregated-only
\* mode was not, and is the empty list otherwise.
C23_MovimientosField ==
  ReturnedResult =>
    /\ "movimientos" \in DOMAIN response
    /\ response.movimientos =
         IF body.incluir_movimientos /\ ~body.modo_agregado THEN RowsAggregated ELSE <<>>

\* rows asked for together with aggregated-only mode: two movements are
\* aggregated and the field is the empty list
C23_Witness ==
  /\ ReturnedResult
  /\ body.incluir_movimientos
  /\ body.modo_agregado
  /\ Len(aggregated) = 2
  /\ "movimientos" \in DOMAIN response
  /\ response.movimientos = <<>>
  /\ response.resumen.padre_usado > 0

\* C24 as stated: whatever chunk_days the caller sends, every iteration of
\* the window loop moves the window start forward.
C24_WindowAdvances ==
  [][(pc \in {"pool", "as_completed"} /\ pc' = "while") => cur' > cur]_vars

\* the sum of one field over the rows of a view
SumOf(rows, f) == SumSeq([i \in 1..Len(rows) |-> rows[i][f]])

\* the accumulators are between two movements: no exception is on its way
\* out of the loop
Accumulating == pc \in {"while", "list", "pool", "as_completed"}

RequestsOf(k) == SelectSeq(list_log, LAMBDA e : e.w = k)

RECURSIVE FlattenIds(_)
FlattenIds(es) == IF es = <<>> THEN <<>> ELSE Head(es).ids \o FlattenIds(Tail(es))

\* what upstream holds for page p of window k
UpstreamPage(k, p) ==
  LET items == PageItems(ups.movs, windows[k].from, windows[k].to, p, PageSize, ups.endless)
  IN  [i \in 1..Len(items) |-> items[i].detail.id]

PagesInOrder ==
  \A k \in 1..Len(windows) :
     LET es == RequestsOf(k)
         listing == k = Len(windows) /\ pc = "list"
     IN  /\ \A j \in 1..Len(es) :
              /\ es[j].page = j
              /\ ~es[j].failed => es[j].ids = UpstreamPage(k, j)
              /\ j < Len(es) => ~es[j].failed /\ es[j].ids # <<>>
         /\ listing =>
              /\ \A j \in 1..Len(es) : ~es[j].failed /\ es[j].ids # <<>>
              /\ ids_en_chunk = FlattenIds(es)
         /\ ~listing =>
              /\ es # <<>>
              /\ es[Len(es)].failed \/ es[Len(es)].ids = <<>>
         /\ (k = Len(windows) /\ pc \in {"pool", "as_completed"}) =>
              /\ ~es[Len(es)].failed
              /\ ids_en_chunk = FlattenIds(es)

\* C16: the pages of a window are requested in the order 1, 2, 3, ...; the
\* items of every page that is not empty are yielded in that order; the
\* first empty page (or failed request) is the last request of the window; a
\* listing ends when upstream returns an empty page or the request fails,
\* and goes on for ever when upstream never does.
C16_Paging ==
  /\ []PagesInOrder
  /\ (pc = "list" /\ ~ups.endless) ~> (pc # "list")
  /\ [][(ups.endless /\ pc = "list" /\ ids_en_chunk # <<>>) => pc' = "list"]_vars

\* pages 1, 2 and 3 of a window were requested; the third was empty
C16_Witness ==
  /\ pc = "pool"
  /\ Len(RequestsOf(1)) = 3
  /\ RequestsOf(1)[3].ids = <<>>
  /\ Len(ids_en_chunk) = 2
  /\ ids_en_chunk[1] # ids_en_chunk[2]

\* ------------------------------------------------------------------------
\* Properties of the classifier (checked under SpecKpi)
\* ------------------------------------------------------------------------
KReturned == k_pc = "returned" /\ ~k_out.raised

\* The children the manufactured total counts, read off the payload.
KIsCounted(ch) == IsManufChild(ch) /\ (k_filter = <<>> \/ ch.pid \in Range(k_filter))

KCounted == SelectSeq(k_detail.childs, KIsCounted)

KIsWaste(ch) == ch.operation = "ENTRY" /\ (ch.ptype = "WASTE" \/ ch.category = "WASTE")

KQty(s) == SumSeq([i \in 1..Len(s) |-> s[i].quantity])

KProducts == {KCounted[i].pid : i \in 1..Len(KCounted)}

KOfProduct(p) == SelectSeq(KCounted, LAMBDA ch : ch.pid = p)

KProductQty(p) == KQty(KOfProduct(p))

\* the unit a product is left with: that of its last counted child
KProductUnit(p) == KOfProduct(p)[Len(KOfProduct(p))].pmeasure

KNumeric == ~IsNone(k_out.kpi.rendimiento_porcentaje)

KNewWarnings == SubSeq(k_out.warnings, Len(k_warn0) + 1, Len(k_out.warnings))

KUnitWarnings ==
  {i \in 1..Len(KNewWarnings) :
     KNewWarnings[i].kind = "unidades" /\ KNewWarnings[i].mid = k_detail.id}

C8_Totals ==
  KReturned =>
    LET manuf == KQty(KCounted)
        waste == KQty(SelectSeq(k_detail.childs, KIsWaste))
        r     == k_out.kpi.rendimiento_porcentaje
    IN  /\ k_out.kpi.manufacturados_total = manuf
        /\ k_out.kpi.merma_total = waste
        /\ KNumeric =>
             2 * Abs(r[1] * ParentQty(k_detail) - manuf * 10000) <= ParentQty(k_detail)

\* parent 10, manufactured 8, waste 1 gives 80.0 and 1, with the allow-list
\* letting the manufactured child through
C8_Witness ==
  /\ KReturned
  /\ ParentQty(k_detail) = 10
  /\ k_filter = <<1>>
  /\ Len(k_detail.childs) = 2
  /\ k_out.kpi.manufacturados_total = 8
  /\ k_out.kpi.merma_total = 1
  /\ k_out.kpi.rendimiento_porcentaje = Some(8000)

\* ------------------------------------------------------------------------
\* Properties of find_area_candidates (checked under SpecArea)
\* ------------------------------------------------------------------------
AReturned == a_pc = "returned"

\* the positions of the areas whose normalized name is the normalized query
AExact == {i \in 1..Len(a_areas) : Norm(a_areas[i].name) = Norm(a_query)}

\* the positions of the areas the query matches by prefix or substring only
ALoose ==
  {i \in 1..Len(a_areas) :
     /\ i \notin AExact
     /\ \/ StartsWith(Norm(a_areas[i].name), Norm(a_query))
        \/ Contains(Norm(a_areas[i].name), Norm(a_query))}

\* C20: with exactly one area whose normalized name equals the normalized
\* query, that area is the match and there are no candidates, whatever else
\* matches by prefix or substring; with several, there is no match and the
\* candidates are exactly those areas, each once.
C20_ExactMatch ==
  AReturned =>
    /\ Cardinality(AExact) = 1 =>
         LET i == CHOOSE j \in AExact : TRUE
         IN  /\ a_out.match = Some([id |-> a_areas[i].id, name |-> a_areas[i].name])
             /\ a_out.candidates = <<>>
    /\ Cardinality(AExact) > 1 =>
         /\ IsNone(a_out.match)
         /\ Len(a_out.candidates) = Cardinality(AExact)
         /\ {a_out.candidates[j] : j \in 1..Len(a_out.candidates)}
              = {[id |-> a_areas[i].id, label |-> a_areas[i].name] : i \in AExact}

\* the query "á" names the area " a" exactly and is a prefix of "AB": the
\* first is resolved
C20_Witness ==
  /\ AReturned
  /\ a_query = <<"á">>
  /\ a_areas = <<[id |-> AreaId(1), name |-> <<"A", "B">>],
                 [id |-> AreaId(2), name |-> <<" ", "a">>]>>
  /\ AExact = {2}
  /\ ALoose = {1}
  /\ a_out.match = Some([id |-> AreaId(2), name |-> <<" ", "a">>])
  /\ a_out.candidates = <<>>

\* ------------------------------------------------------------------------
\* Properties of teco_request (checked under SpecTeco)
\* ------------------------------------------------------------------------
TLast == t_log[Len(t_log)]

\* at most retries + 1 requests; a request is sent again only after a
\* retriable status; a transport exception ends the call at once; the call
\* returns the last response, a retriable one only when the retries are
\* used up
TecoRequests ==
  /\ Len(t_log) <= t_retries + 1
  /\ t_attempt <= t_retries
  /\ \A j \in 1..(Len(t_log) - 1) : t_log[j] \in RETRY_STATUS
  /\ t_pc = "send" => (t_log = <<>> \/ TLast \in RETRY_STATUS) /\ Len(t_log) = t_attempt
  /\ t_pc = "raised" => t_out.raised /\ TLast = 0 /\ t_out.sent = Len(t_log)
  /\ t_pc = "returned" =>
       /\ ~t_out.raised
       /\ TLast # 0
       /\ t_out.status = TLast
       /\ t_out.sent = Len(t_log)
       /\ TLast \in RETRY_STATUS => Len(t_log) = t_retries + 1
  /\ t_pc \in {"raised", "returned"} => t_out = TecoAttempt(t_answers, 0, t_retries)

\* C26 as stated: teco_request sends at most retries + 1 requests, sends
\* again only after 429, 502, 503 or 504 while retries are left, returns
\* the last response when they are used up, and lets a transport exception
\* out, as it is, on its first occurrence.
C26_AsStated ==
  /\ TecoRequests
  /\ t_pc = "raised" => t_out.exc = "TransportException"

\* ------------------------------------------------------------------------
\* Properties of CircuitBreaker (checked under SpecBreaker)
\* ------------------------------------------------------------------------
AfterCanRequest == cb_ret.op = "can_request"

AfterLoginUser == login.via = "login_user"

\* C28: a login_user that raises leaves the session store as it was before
\* the call; one that returns has written the entry of the normalized user
\* name and no other.
C28_StoreOnFailure ==
  AfterLoginUser =>
    IF login.raised
    THEN user_context = login.before
    ELSE /\ DOMAIN user_context = DOMAIN login.before \cup {LowerStr(Strip(login.usuario))}
         /\ \A u \in DOMAIN login.before :
              u # LowerStr(Strip(login.usuario)) => user_context[u] = login.before[u]

\* the branches call of a login of " Ana" fails: the session "ana" had is
\* still the one of the earlier login
C28_Witness ==
  /\ AfterLoginUser
  /\ login.raised
  /\ login.at = "branches"
  /\ login.usuario = <<" ", "A", "n", "a">>
  /\ Ana \in DOMAIN user_context
  /\ user_context[Ana].token = "t1"

\* C29 as stated: once a login has succeeded for user name U, a session
\* check of the pipeline for usuario = U passes.
C29_AsStated ==
  [][(pc = "entry" /\ pc' # "entry" /\ body.usuario \in logged_in) => pc' = "area"]_vars

\* ------------------------------------------------------------------------
\* Properties of TTLCache (checked under SpecCache)
\* ------------------------------------------------------------------------
AfterGet == cache_ret.op = "get"

\* at the last call the last set of the key was there (no clear since) and
\* younger than its ttl
Fresh(key) ==
  /\ ~IsNone(cache_hist[key])
  /\ cache_ret.at - cache_hist[key][1].at < cache_hist[key][1].ttl

\* C30: get(key) returns the value of the most recent set of the key when
\* less than ttl has passed since that set and no clear came after it, and
\* None otherwise; a get that finds the entry expired removes it from the
\* store and leaves every other entry alone, any other get leaves the store
\* as it was.
C30_Cache ==
  AfterGet =>
    LET key == cache_ret.key
        entry == cache_ret.before[key]
    IN  /\ cache_ret.value = IF Fresh(key) THEN Some(cache_hist[key][1].value) ELSE None
        /\ \A k \in CacheKeys \ {key} : cache_store[k] = cache_ret.before[k]
        /\ cache_store[key] = IF Fresh(key) THEN entry ELSE None

\* "k1" set with ttl 1 has expired and the get removed it; "k2", set with
\* ttl 2 at the same time, is still in the store
C30_Witness ==
  /\ AfterGet
  /\ cache_ret.key = "k1"
  /\ ~IsNone(cache_ret.before["k1"])
  /\ cache_ret.value = None
  /\ IsNone(cache_store["k1"])
  /\ ~IsNone(cache_hist["k1"])
  /\ cache_ret.at - cache_hist["k1"][1].at = cache_hist["k1"][1].ttl
  /\ cache_hist["k1"][1].ttl = 1
  /\ ~IsNone(cache_store["k2"])

====
